
---- MODULE Spec2Model ----
(***************************************************************************)
(* A model of the krug compiler front half: the lexer (front/lex.go), the  *)
(* expression parser (front/parse.go), the IR builder (package ir) and     *)
(* the two semantic passes (middle/sym_resolve.go, middle/decl_type.go).   *)
(*                                                                         *)
(* Runes are one-character strings; a lexeme is the sequence of the runes  *)
(* of input[start:pos]; positions are byte offsets.                        *)
(***************************************************************************)
EXTENDS Integers, Sequences, FiniteSets, TLC

VARIABLES
    input,      \* lexer.input, as a sequence of runes
    pos,        \* lexer.pos   (byte offset)
    start,      \* lexer.start (byte offset)
    width,      \* lexer.width (bytes of the last decoded rune)
    stream,     \* lexer.stream
    lexState,   \* the stateFn about to run: "lexStart", ..., "nil", or "panic"
    tokens,     \* the token stream given to the parser
    parsedExpr, \* the node parseExpression returned
    parsedNodes,\* the nodes ParseTokenStream returned
    perrors,    \* parser.errors at the end of the call
    parseState, \* "idle", "ready", then "expr" or how ParseTokenStream ended
    units,      \* the units of the request: source text, declarations given as AST
    trees,      \* the AST forests given to build
    module,     \* the Module: of the first build, then as the passes left it
    tables,     \* the symbol tables of the module
    berrors,    \* the diagnostics of the first build
    buildState, \* "idle", "ready", "built", "twice", "given" or "panic"
    again,      \* what the second build on the same forests returned
    serrors,    \* the diagnostics symResolve returned
    symState,   \* "idle", then "done" or "panic"
    derrors,    \* the diagnostics declType returned
    declState   \* "idle", then "done" or "panic"

lexVars == <<input, pos, start, width, stream, lexState>>

parseVars == <<tokens, parsedExpr, parsedNodes, perrors, parseState>>

midVars ==
    <<units, trees, module, tables, berrors, buildState, again, serrors, symState, derrors, declState>>

vars == <<lexVars, parseVars, midVars>>

----------------------------------------------------------------------------
(* Bounds of the model *)

MaxInput == 3      \* longest enumerated lexer input, in runes

MaxTokens == 3     \* longest enumerated parser input, in tokens

----------------------------------------------------------------------------
(* A local variable of the code: Let(v, LAMBDA x: e) is e with x bound to v, *)
(* the := of a Go function body.                                           *)

Let(v, F(_)) == F(v)

----------------------------------------------------------------------------
(* Runes and their classes *)

eof == "EOF"                 \* const eof = -1
RuneError == "RuneError"     \* utf8.RuneError, what DecodeRune yields on bad bytes

Digits == {"0", "1", "2", "3", "4", "5", "6", "7", "8", "9"}
Letters ==
    {"a", "b", "c", "d", "e", "f", "g", "h", "i", "j", "k", "l", "m", "n", "o", "p", "q",
     "r", "s", "t", "u", "v", "w", "x", "y", "z", "A", "B", "é"}
Layout == {" ", "\n", "\t"}

\* the rune set registered by init()
symbols ==
    {"+", "-", "/", "*", "%", "=",
     "(", ")", "{", "}", "[", "]", "<", ">",
     ".", "$", "!", "?", "#", ",", "|", "&",
     "_", "~", ";", ":"}

isSymbol(r) == r \in symbols

IsDigit(r) == r \in Digits

IsLetter(r) == r \in Letters

isAlphaNumeric(r) == r = "_" \/ IsLetter(r) \/ IsDigit(r)

\* the UTF-8 length of a rune: every rune of the model is ASCII but one
RuneLen(r) == IF r = "é" THEN 2 ELSE IF r = RuneError THEN 3 ELSE 1

RECURSIVE ByteLen(_)
ByteLen(s) == IF s = <<>> THEN 0 ELSE RuneLen(Head(s)) + ByteLen(Tail(s))

\* byte offset of the i-th rune of s (1-based rune index, 0-based offset)
Offset(s, i) == ByteLen(SubSeq(s, 1, i - 1))

\* utf8.DecodeRune(input[p:]): the rune starting at byte p and its width;
\* a position inside a rune decodes to RuneError
DecodeRune(s, p) ==
    IF \E i \in 1..Len(s) : Offset(s, i) = p
    THEN Let(CHOOSE j \in 1..Len(s) : Offset(s, j) = p, LAMBDA i:
             [r |-> s[i], w |-> RuneLen(s[i])])
    ELSE [r |-> RuneError, w |-> 1]

\* string(input[a:b]) as the sequence of the runes lying within [a, b)
Slice(s, a, b) ==
    Let({i \in 1..Len(s) : a <= Offset(s, i) /\ Offset(s, i) + RuneLen(s[i]) <= b}, LAMBDA idx:
        IF idx = {} THEN <<>>
        ELSE SubSeq(s, CHOOSE i \in idx : \A j \in idx : i <= j,
                       CHOOSE i \in idx : \A j \in idx : j <= i))

----------------------------------------------------------------------------
(* The lexer object and its methods.  A lexer value is the record l;       *)
(* a method returns the updated record, with the method's result in r      *)
(* and a raised panic in bad.                                              *)

NewToken(lexeme, t, s, e) == [lexeme |-> lexeme, kind |-> t, span |-> <<s, e>>]

Lexer(in, p, s, w, st) == [input |-> in, pos |-> p, start |-> s, width |-> w, stream |-> st]

emit(l, t) ==
    [l EXCEPT !.start = l.pos,
              !.stream = Append(l.stream,
                                NewToken(Slice(l.input, l.start, l.pos), t, l.start, l.pos))]

ignore(l) == [l EXCEPT !.start = l.pos]

\* rewind as it would be if it stepped back one byte whatever was consumed
rewindOneByte(l) == [l EXCEPT !.pos = l.pos - 1]

rewind(l) == [l EXCEPT !.pos = l.pos - l.width]

consume(l) ==
    IF l.pos >= ByteLen(l.input)
    THEN [l |-> [l EXCEPT !.width = 0], r |-> eof, bad |-> FALSE]
    ELSE Let(DecodeRune(l.input, l.pos), LAMBDA d:
             IF d.r = RuneError
             THEN [l |-> [l EXCEPT !.width = 0], r |-> RuneError, bad |-> TRUE]
             ELSE [l |-> [l EXCEPT !.width = d.w, !.pos = l.pos + d.w], r |-> d.r, bad |-> FALSE])

peek(l) ==
    Let(consume(l), LAMBDA c:
        [l |-> rewind(c.l), r |-> c.r, bad |-> c.bad])

\* strings.IndexRune(valid, r) >= 0, valid given as a set of runes
accept(l, valid) ==
    Let(consume(l), LAMBDA c:
        IF c.bad THEN [l |-> c.l, r |-> FALSE, bad |-> TRUE]
        ELSE IF c.r \in valid THEN [l |-> c.l, r |-> TRUE, bad |-> FALSE]
        ELSE [l |-> rewind(c.l), r |-> FALSE, bad |-> FALSE])

RECURSIVE acceptRun(_, _)
acceptRun(l, valid) ==
    Let(consume(l), LAMBDA c:
        IF c.bad THEN [l |-> c.l, bad |-> TRUE]
        ELSE IF c.r \in valid THEN acceptRun(c.l, valid)
        ELSE [l |-> rewind(c.l), bad |-> FALSE])

----------------------------------------------------------------------------
(* The state functions.  Each yields the lexer after the call, the next    *)
(* state function in fn ("nil" ends the scan) and "panic" for a panic.     *)
(* lexIdentifier and the loop of lexQuote are taken one iteration at a     *)
(* time: fn names the function whose loop is still running.                *)

digitRun == Digits                       \* "0123456789"

fractionRun == Digits \ {"7"}            \* "012345689"

doubleSym ==
    {<<"=", "=">>, <<"!", "=">>, <<"&", "&">>, <<"|", "|">>, <<"<", "=">>, <<">", "=">>}

\* string(rune): eof (-1) is no valid rune and converts to "�"
RuneString(r) == IF r = eof THEN RuneError ELSE r

\* lexStart as it would be if the end of the input were reported as a token
lexStartEmitsEof(l) ==
    Let(consume(l), LAMBDA c:
        IF c.bad THEN [l |-> c.l, fn |-> "panic"]
        ELSE IF c.r = eof THEN [l |-> emit(rewind(c.l), "EndOfFile"), fn |-> "nil"]
        ELSE IF IsDigit(c.r) THEN [l |-> rewind(c.l), fn |-> "lexNumber"]
        ELSE IF isAlphaNumeric(c.r) THEN [l |-> rewind(c.l), fn |-> "lexIdentifier"]
        ELSE IF isSymbol(c.r) THEN [l |-> rewind(c.l), fn |-> "lexSymbol"]
        ELSE IF c.r = "\"" THEN [l |-> rewind(c.l), fn |-> "lexQuote"]
        ELSE IF c.r \in Layout THEN [l |-> ignore(c.l), fn |-> "lexStart"]
        ELSE [l |-> emit(rewind(c.l), "EndOfFile"), fn |-> "nil"])

\* lexStart as it would be if a rune of no class were skipped like layout
lexStartSkipsUnhandled(l) ==
    Let(consume(l), LAMBDA c:
        IF c.bad THEN [l |-> c.l, fn |-> "panic"]
        ELSE IF c.r = eof THEN [l |-> rewind(c.l), fn |-> "nil"]
        ELSE IF IsDigit(c.r) THEN [l |-> rewind(c.l), fn |-> "lexNumber"]
        ELSE IF isAlphaNumeric(c.r) THEN [l |-> rewind(c.l), fn |-> "lexIdentifier"]
        ELSE IF isSymbol(c.r) THEN [l |-> rewind(c.l), fn |-> "lexSymbol"]
        ELSE IF c.r = "\"" THEN [l |-> rewind(c.l), fn |-> "lexQuote"]
        ELSE [l |-> ignore(c.l), fn |-> "lexStart"])

lexStart(l) ==
    Let(consume(l), LAMBDA c:
        IF c.bad THEN [l |-> c.l, fn |-> "panic"]
        ELSE IF c.r = eof THEN [l |-> rewind(c.l), fn |-> "nil"]
        ELSE IF IsDigit(c.r) THEN [l |-> rewind(c.l), fn |-> "lexNumber"]
        ELSE IF isAlphaNumeric(c.r) THEN [l |-> rewind(c.l), fn |-> "lexIdentifier"]
        ELSE IF isSymbol(c.r) THEN [l |-> rewind(c.l), fn |-> "lexSymbol"]
        ELSE IF c.r = "\"" THEN [l |-> rewind(c.l), fn |-> "lexQuote"]
        ELSE IF c.r \in Layout THEN [l |-> ignore(c.l), fn |-> "lexStart"]
        ELSE [l |-> emit(rewind(c.l), "EndOfFile"), fn |-> "nil"])

lexIdentifier(l) ==
    Let(consume(l), LAMBDA c:
        IF c.bad THEN [l |-> c.l, fn |-> "panic"]
        ELSE IF isAlphaNumeric(c.r) THEN [l |-> c.l, fn |-> "lexIdentifier"]
        ELSE [l |-> emit(rewind(c.l), "Identifier"), fn |-> "lexStart"])

lexNumber(l) ==
    Let(acceptRun(l, digitRun), LAMBDA a:
    Let(accept(a.l, {"."}), LAMBDA d:
    Let(acceptRun(d.l, fractionRun), LAMBDA f:
        IF a.bad THEN [l |-> a.l, fn |-> "panic"]
        ELSE IF d.bad THEN [l |-> d.l, fn |-> "panic"]
        ELSE IF ~d.r THEN [l |-> emit(d.l, "Number"), fn |-> "lexStart"]
        ELSE IF f.bad THEN [l |-> f.l, fn |-> "panic"]
        ELSE [l |-> emit(f.l, "Number"), fn |-> "lexStart"])))

\* the opening quote of lexQuote
lexQuote(l) ==
    Let(accept(l, {"\""}), LAMBDA a:
        IF a.bad \/ ~a.r THEN [l |-> a.l, fn |-> "panic"]
        ELSE [l |-> a.l, fn |-> "lexQuoteLoop"])

\* one iteration of the for loop of lexQuote
lexQuoteLoop(l) ==
    Let(consume(l), LAMBDA c:
        IF c.bad THEN [l |-> c.l, fn |-> "panic"]
        ELSE IF c.r = "\"" THEN [l |-> emit(c.l, "String"), fn |-> "lexStart"]
        ELSE [l |-> c.l, fn |-> "lexQuoteLoop"])

lexSymbol(l) ==
    Let(consume(l), LAMBDA c:
    Let(peek(c.l), LAMBDA p:
    Let(<<RuneString(c.r), RuneString(p.r)>>, LAMBDA curr:
    Let(consume(p.l), LAMBDA c2:
        IF c.bad \/ p.bad THEN [l |-> p.l, fn |-> "panic"]
        ELSE IF curr \in doubleSym THEN [l |-> emit(c2.l, "Symbol"), fn |-> "lexStart"]
        ELSE [l |-> emit(p.l, "Symbol"), fn |-> "lexStart"]))))

\* s(l) for the state function named fn
lexStep(fn, l) ==
    CASE fn = "lexStart" -> lexStart(l)
      [] fn = "lexIdentifier" -> lexIdentifier(l)
      [] fn = "lexNumber" -> lexNumber(l)
      [] fn = "lexQuote" -> lexQuote(l)
      [] fn = "lexQuoteLoop" -> lexQuoteLoop(l)
      [] fn = "lexSymbol" -> lexSymbol(l)

\* tokenizeInput run to its end, for the stages that consume its result.
\* The result is the stream, or the marker "hang"/"panic" in fn when the
\* loop of tokenizeInput never ends (a state function that repeats its own
\* state) or a state function panics.
\* one iteration of the loop of tokenizeInput on x = [l, fn]
lexCall(x) ==
    IF x.fn \in {"nil", "panic", "hang"} THEN x
    ELSE Let(lexStep(x.fn, x.l), LAMBDA n:
             IF n.fn = x.fn /\ n.l = x.l THEN [l |-> x.l, fn |-> "hang"] ELSE n)

\* four and sixteen iterations
lexCalls4(x) == lexCall(lexCall(lexCall(lexCall(x))))

lexCalls16(x) == lexCalls4(lexCalls4(lexCalls4(lexCalls4(x))))

RECURSIVE lexRun(_, _)
lexRun(fn, l) ==
    IF fn \in {"nil", "panic", "hang"} THEN [l |-> l, fn |-> fn]
    ELSE Let(lexCalls16([l |-> l, fn |-> fn]), LAMBDA n: lexRun(n.fn, n.l))

tokenizeInput(in) == lexRun("lexStart", Lexer(in, 0, 0, 0, <<>>))

----------------------------------------------------------------------------
(* Lexer actions: one call s(l) of the loop of tokenizeInput each *)

curLexer == Lexer(input, pos, start, width, stream)

SetLexer(n) ==
    /\ input' = n.l.input
    /\ pos' = n.l.pos
    /\ start' = n.l.start
    /\ width' = n.l.width
    /\ stream' = n.l.stream
    /\ lexState' = n.fn
    /\ UNCHANGED <<parseVars, midVars>>

LexStart == lexState = "lexStart" /\ SetLexer(lexStart(curLexer))

LexIdentifier == lexState = "lexIdentifier" /\ SetLexer(lexIdentifier(curLexer))

LexNumber == lexState = "lexNumber" /\ SetLexer(lexNumber(curLexer))

LexQuote == lexState = "lexQuote" /\ SetLexer(lexQuote(curLexer))

LexQuoteLoop == lexState = "lexQuoteLoop" /\ SetLexer(lexQuoteLoop(curLexer))

LexSymbol == lexState = "lexSymbol" /\ SetLexer(lexSymbol(curLexer))

\* the inputs of the lexer: every rune sequence over LexAlphabet up to
\* MaxInput runes, and the sample programs
LexAlphabet == {"a", "1", "7", ".", "=", "\"", " ", "^", "é", RuneError}

RECURSIVE SeqsUpTo(_, _)
SeqsUpTo(S, n) ==
    IF n = 0 THEN {<<>>}
    ELSE Let(SeqsUpTo(S, n - 1), LAMBDA shorter:
             shorter \cup {Append(s, x) : s \in {t \in shorter : Len(t) = n - 1}, x \in S})

SrcLet == <<"l", "e", "t", " ", "x", " ", "=", " ", "1", " ", "+", " ", "2", ";">>

SrcUnterminated == <<"\"", "a", "b", "c">>

SrcDecimal == <<"1", ".", "7", "5">>

\* a 'b' = 1
SrcQuoteChar == <<"a", " ", "'", "b", "'", " ", "=", " ", "1">>

LexSamples == {SrcLet, SrcUnterminated, SrcDecimal, SrcQuoteChar}

LexInputs == SeqsUpTo(LexAlphabet, MaxInput) \cup LexSamples

\* the builder and the passes before they are given anything
MidIdle ==
    /\ units = <<>>
    /\ trees = <<>>
    /\ module = [kind |-> "Nil"]
    /\ tables = <<>>
    /\ berrors = <<>>
    /\ buildState = "idle"
    /\ again = [kind |-> "Nil"]
    /\ serrors = <<>>
    /\ symState = "idle"
    /\ derrors = <<>>
    /\ declState = "idle"

\* the parser before it is given anything
ParseIdle ==
    /\ tokens = <<>>
    /\ parsedExpr = [kind |-> "Nil"]
    /\ parsedNodes = <<>>
    /\ perrors = <<>>
    /\ parseState = "idle"

LexInit ==
    /\ input \in LexInputs
    /\ pos = 0
    /\ start = 0
    /\ width = 0
    /\ stream = <<>>
    /\ lexState = "lexStart"
    /\ ParseIdle
    /\ MidIdle

LexNext ==
    \/ LexStart
    \/ LexIdentifier
    \/ LexNumber
    \/ LexQuote
    \/ LexQuoteLoop
    \/ LexSymbol

SpecLex == LexInit /\ [][LexNext]_vars

----------------------------------------------------------------------------
(* Claims about the lexer, checked under SpecLex *)

Range(s) == {s[i] : i \in DOMAIN s}

\* kind and lexeme of every token of a stream
KindsAndLexemes(st) == [i \in DOMAIN st |-> <<st[i].kind, st[i].lexeme>>]

\* C1: tokenizeInput terminates and returns for every input string, also one
\* that ends in the middle of a token: on an input of valid runes the scan
\* never panics, and every call s(l) short of the end changes the lexer, so
\* that the loop of tokenizeInput cannot repeat one state for ever.
C1_LexerTotal ==
    RuneError \notin Range(input) =>
        /\ lexState # "panic"
        /\ lexState # "nil" =>
               lexStep(lexState, curLexer) # [l |-> curLexer, fn |-> lexState]

\* C2: lexing `let x = 1 + 2;` yields exactly Identifier(let), Identifier(x),
\* Symbol(=), Number(1), Symbol(+), Number(2), Symbol(;), with no token for
\* the whitespace and none for the end of the input.
C2_LetTokens ==
    (input = SrcLet /\ lexState = "nil") =>
        KindsAndLexemes(stream) =
            << <<"Identifier", <<"l", "e", "t">> >>,
               <<"Identifier", <<"x">> >>,
               <<"Symbol", <<"=">> >>,
               <<"Number", <<"1">> >>,
               <<"Symbol", <<"+">> >>,
               <<"Number", <<"2">> >>,
               <<"Symbol", <<";">> >> >>

C2_Witness == input = SrcLet /\ lexState = "nil" /\ Len(stream) = 7

\* digits, a ".", digits
IsDecimal(in) ==
    \E k \in 2..(Len(in) - 1) :
        /\ in[k] = "."
        /\ \A i \in DOMAIN in : i # k => in[i] \in Digits

\* C14: for an input of digits, a ".", and digits again, the lexer emits
\* exactly one Number token whose lexeme is the whole input.
C14_DecimalOneToken ==
    (lexState = "nil" /\ IsDecimal(input)) =>
        KindsAndLexemes(stream) = << <<"Number", input>> >>

\* a rune of none of the classes lexStart tells apart
Unhandled(r) ==
    /\ r \notin {eof, RuneError, "\""} \cup Layout
    /\ ~IsDigit(r)
    /\ ~isAlphaNumeric(r)
    /\ ~isSymbol(r)

\* lexStart is about to read a rune of no class
AtUnhandled ==
    /\ lexState = "lexStart"
    /\ pos < ByteLen(input)
    /\ Unhandled(DecodeRune(input, pos).r)

\* C20: when the lexer meets a character that is not a digit, a letter or
\* underscore, a registered symbol, a double quote or whitespace (^ or '), it
\* appends exactly one EndOfFile token with an empty lexeme and stops: the
\* tokens emitted before that character are kept unchanged, and no token is
\* emitted for the input after it.
C20_UnhandledEndsScan ==
    /\ [][AtUnhandled =>
             /\ lexState' = "nil"
             /\ stream' = Append(stream, NewToken(<<>>, "EndOfFile", pos, pos))
             /\ pos' = pos]_vars
    /\ [](\A k \in DOMAIN stream :
             stream[k].kind = "EndOfFile" =>
                 /\ k = Len(stream)
                 /\ lexState = "nil"
                 /\ Unhandled(DecodeRune(input, pos).r)
                 /\ \A j \in DOMAIN stream : stream[j].span[2] <= pos)

\* a^a and a 'b' = 1 have been scanned to the unhandled rune
C20_Witness ==
    /\ lexState = "nil"
    /\ input \in {<<"a", "^", "a">>, SrcQuoteChar}
    /\ Len(stream) = 2
    /\ stream[2].kind = "EndOfFile"

\* C27: in every state of the lexer 0 <= start <= pos <= len(input), and
\* rewind undoes exactly the last consumed rune; so every emitted token has
\* the lexeme input[start:end] of its span, and the spans of successive
\* tokens do not overlap and are in increasing order.
C27_LexerPositions ==
    /\ 0 <= start /\ start <= pos /\ pos <= ByteLen(input)
    /\ (lexState \notin {"nil", "panic"} /\ ~consume(curLexer).bad) =>
           rewind(consume(curLexer).l).pos = pos
    /\ \A k \in DOMAIN stream :
           /\ 0 <= stream[k].span[1]
           /\ stream[k].span[1] <= stream[k].span[2]
           /\ stream[k].span[2] <= start
           /\ stream[k].lexeme = Slice(input, stream[k].span[1], stream[k].span[2])
           /\ k > 1 => stream[k - 1].span[2] <= stream[k].span[1]

\* é=1 has been scanned: three tokens over four bytes
C27_Witness ==
    /\ lexState = "nil"
    /\ input = <<"é", "=", "1">>
    /\ [k \in DOMAIN stream |-> stream[k].span] = << <<0, 2>>, <<2, 3>>, <<3, 4>> >>

----------------------------------------------------------------------------
(* The parser.  A parser value is the record p: the token stream, the      *)
(* 0-based index pos of the next token, the diagnostics and st, which is   *)
(* "ok" until a call panics ("panic") or a loop stops consuming and        *)
(* repeats its iteration for ever ("hang"); from then on nothing is        *)
(* consumed and the outcome of the whole parse is st.                      *)
(* A parse function yields [p |-> the parser after it, n |-> its node];    *)
(* an absent (nil) node is Nil.                                            *)

Nil == [kind |-> "Nil"]

BadToken == [lexeme |-> <<>>, kind |-> "", span |-> <<>>]

fn == <<"f", "n">>
let == <<"l", "e", "t">>
typ == <<"t", "y", "p", "e">>
mut == <<"m", "u", "t">>
brk == <<"b", "r", "e", "a", "k">>
ret == <<"r", "e", "t", "u", "r", "n">>
next == <<"n", "e", "x", "t">>
trait == <<"t", "r", "a", "i", "t">>
struc == <<"s", "t", "r", "u", "c", "t">>
impl == <<"i", "m", "p", "l">>
loop == <<"l", "o", "o", "p">>
deferr == <<"d", "e", "f", "e", "r">>
while == <<"w", "h", "i", "l", "e">>
iff == <<"i", "f">>
else == <<"e", "l", "s", "e">>
jump == <<"j", "u", "m", "p">>

assignOperators == {<<"=">>, <<"+", "=">>, <<"-", "=">>, <<"*", "=">>, <<"/", "=">>}

unaryOperators == {<<"-">>, <<"!">>, <<"+">>, <<"@">>, <<"&">>, <<"~">>}

builtins ==
    {<<"a", "l", "l", "o", "c">>, <<"s", "i", "z", "e", "o", "f">>, <<"l", "e", "n">>,
     <<"f", "r", "e", "e">>, <<"m", "o", "v", "e">>, <<"r", "e", "f">>}

Parser(st) == [stream |-> st, pos |-> 0, errors |-> <<>>, st |-> "ok"]

\* Token.Matches(values...)
Matches(tok, values) == tok.lexeme \in values

pHasNext(p) == p.st = "ok" /\ p.pos < Len(p.stream)

pPeek(p, offs) ==
    IF p.pos + offs < Len(p.stream) THEN p.stream[p.pos + offs + 1] ELSE BadToken

pNext(p) == pPeek(p, 0)

pConsume(p) ==
    IF pHasNext(p) THEN [p |-> [p EXCEPT !.pos = p.pos + 1], t |-> pNext(p)]
    ELSE [p |-> p, t |-> BadToken]

pError(p, err) == IF p.st = "ok" THEN [p EXCEPT !.errors = Append(p.errors, err)] ELSE p

NewParseError(msg, s, e) == [kind |-> "ParseError", msg |-> msg, span |-> <<s, e>>]

NewUnimplementedError(msg, s, e) == [kind |-> "UnimplementedError", msg |-> msg, span |-> <<s, e>>]

pExpect(p, val) ==
    Let(pConsume(p), LAMBDA c:
        IF pHasNext(p) /\ Matches(c.t, {val}) THEN c
        ELSE [p |-> pError(c.p, NewParseError("expected token", p.pos, c.p.pos)), t |-> BadToken])

pExpectKind(p, kind) ==
    Let(pConsume(p), LAMBDA c:
        IF pHasNext(p) /\ c.t.kind = kind THEN c
        ELSE [p |-> pError(c.p, NewParseError("expected kind", p.pos, c.p.pos)), t |-> BadToken])

Panic(p) == [p EXCEPT !.st = IF p.st = "ok" THEN "panic" ELSE p.st]

Hang(p) == [p EXCEPT !.st = IF p.st = "ok" THEN "hang" ELSE p.st]

RECURSIVE parse(_, _, _)

callParseTypeExpression(p0) == parse("parseTypeExpression", p0, <<>>)

callParseExpression(p0) == parse("parseExpression", p0, <<>>)

callParseStatement(p0) == parse("parseStatement", p0, <<>>)

callParsePrimaryExpr(p0) == parse("parsePrimaryExpr", p0, <<>>)

callParseUnaryExpr(p0) == parse("parseUnaryExpr", p0, <<>>)

callParsePrec(p0, lastPrec, left) == parse("parsePrec", p0, <<lastPrec, left>>)

callParseStatBlock(p0) == parse("parseStatBlock", p0, <<>>)

callParseFunctionPrototypeDeclaration(p0) == parse("parseFunctionPrototypeDeclaration", p0, <<>>)


----------------------------------------------------------------------------
(* Type expressions *)

parsePointerType(p0) ==
    Let(pExpect(p0, <<"*">>), LAMBDA e:
    Let(callParseTypeExpression(e.p), LAMBDA base:
        IF base.n = Nil
        THEN [p |-> pError(base.p, NewParseError("type after pointer", p0.pos, base.p.pos)),
              n |-> Nil]
        ELSE [p |-> base.p, n |-> [kind |-> "PointerType", base |-> base.n]]))

parseArrayType(p0) ==
    Let(pExpect(p0, <<"[">>), LAMBDA e1:
    Let(callParseTypeExpression(e1.p), LAMBDA base:
    Let(  IF base.n = Nil
          THEN pError(base.p, NewParseError("array type", p0.pos, base.p.pos))
          ELSE base.p, LAMBDA p1:
    Let(pExpect(p1, <<";">>), LAMBDA e2:
    Let(callParseExpression(e2.p), LAMBDA size:
    Let(  IF size.n = Nil
          THEN pError(size.p, NewParseError("array length constant", p0.pos, size.p.pos))
          ELSE size.p, LAMBDA p2:
    Let(pExpect(p2, <<"]">>), LAMBDA e3:
        [p |-> e3.p, n |-> [kind |-> "ArrayType", base |-> base.n, size |-> size.n]])))))))

parseUnresolvedType(p0) ==
    Let(pExpectKind(p0, "Identifier"), LAMBDA name:
        [p |-> name.p, n |-> [kind |-> "UnresolvedType", name |-> name.t.lexeme]])

\* the for loop of parseTupleType from the parser q, with the types so far
RECURSIVE parseTupleTypeLoop(_, _)
parseTupleTypeLoop(q, types) ==
    IF ~pHasNext(q) THEN [p |-> q, types |-> types]
    ELSE Let(IF Matches(pNext(q), {<<",">>}) THEN pConsume(q).p ELSE q, LAMBDA p1:
             IF Matches(pNext(p1), {<<")">>}) THEN [p |-> p1, types |-> types]
             ELSE Let(callParseTypeExpression(p1), LAMBDA t:
                  Let(IF t.n # Nil THEN Append(types, t.n) ELSE types, LAMBDA ts:
                      IF t.p.pos = q.pos /\ t.p.st = "ok"
                      THEN [p |-> Hang(t.p), types |-> ts]
                      ELSE parseTupleTypeLoop(t.p, ts))))

parseTupleType(p0) ==
    Let(pExpect(p0, <<"(">>), LAMBDA e1:
    Let(parseTupleTypeLoop(e1.p, <<>>), LAMBDA lp:
    Let(pExpect(lp.p, <<")">>), LAMBDA e2:
        [p |-> e2.p, n |-> [kind |-> "TupleType", types |-> lp.types]])))

\* the for loop of parseStructureType
RECURSIVE parseStructureTypeLoop(_, _, _)
parseStructureTypeLoop(q, fields, start0) ==
    IF ~pHasNext(q) \/ Matches(pNext(q), {<<"}">>}) THEN [p |-> q, fields |-> fields]
    ELSE Let(pExpectKind(q, "Identifier"), LAMBDA name:
         Let(callParseTypeExpression(name.p), LAMBDA t:
         Let(  IF t.n = Nil THEN pError(t.p, NewParseError("type", start0, t.p.pos))
               ELSE t.p, LAMBDA p1:
         Let(pExpect(p1, <<",">>), LAMBDA e:
         Let([mutable |-> TRUE, name |-> name.t, owned |-> FALSE, type |-> t.n], LAMBDA f:
             IF e.p.pos = q.pos /\ e.p.st = "ok"
             THEN [p |-> Hang(e.p), fields |-> fields]
             ELSE parseStructureTypeLoop(e.p, Append(fields, f), start0))))))

parseStructureType(p0) ==
    Let(pExpect(p0, struc), LAMBDA fst:
    Let(pExpect(fst.p, <<"{">>), LAMBDA e1:
    Let(parseStructureTypeLoop(e1.p, <<>>, p0.pos), LAMBDA lp:
    Let(pExpect(lp.p, <<"}">>), LAMBDA e2:
        [p |-> e2.p, n |-> [kind |-> "StructureType", name |-> fst.t, fields |-> lp.fields]]))))

parseTypeExpression(p0) ==
    IF p0.st # "ok" THEN [p |-> p0, n |-> Nil]
    ELSE
    Let(pNext(p0), LAMBDA curr:
    LET wrap(r) == [p |-> r.p, n |-> [kind |-> "TypeExpression", type |-> r.n]]
    IN  (
        IF Matches(curr, {<<"*">>}) THEN wrap(parsePointerType(p0))
        ELSE IF Matches(curr, {<<"[">>}) THEN wrap(parseArrayType(p0))
        ELSE IF Matches(curr, {<<"(">>}) THEN wrap(parseTupleType(p0))
        ELSE IF Matches(curr, {struc}) THEN wrap(parseStructureType(p0))
        ELSE IF curr.kind = "Identifier" THEN wrap(parseUnresolvedType(p0))
        ELSE [p |-> pError(p0, NewUnimplementedError("parseTypeExpression", p0.pos, p0.pos)),
              n |-> Nil]))

----------------------------------------------------------------------------
(* Expressions *)

Constant(ckind, tok) == [kind |-> "Constant", ckind |-> ckind, value |-> tok.lexeme, tok |-> tok]

Binary(lh, op, rh) == [kind |-> "Binary", lh |-> lh, op |-> op, rh |-> rh]

\* strconv.ParseFloat accepts a lexeme of digits with at most one "."
ParseFloatOk(lexeme) ==
    /\ \A i \in DOMAIN lexeme : lexeme[i] \in Digits \cup {"."}
    /\ \E i \in DOMAIN lexeme : lexeme[i] \in Digits
    /\ Cardinality({i \in DOMAIN lexeme : lexeme[i] = "."}) <= 1

\* the for loop of parseGroupedList
RECURSIVE parseGroupedListLoop(_, _)
parseGroupedListLoop(q, list) ==
    IF ~(pHasNext(q) /\ Matches(pNext(q), {<<",">>})) THEN [p |-> q, list |-> list]
    ELSE Let(pExpect(q, <<",">>), LAMBDA e:
         Let(callParseExpression(e.p), LAMBDA val:
             IF val.n = Nil THEN [p |-> Panic(val.p), list |-> list]
             ELSE parseGroupedListLoop(val.p, Append(list, val.n))))

parseGroupedList(p0, fst) ==
    Let(parseGroupedListLoop(p0, <<fst>>), LAMBDA lp:
    Let(pExpect(lp.p, <<")">>), LAMBDA e:
        [p |-> e.p, n |-> [kind |-> "List", values |-> lp.list]]))

parseOperand(p0) ==
    IF ~pHasNext(p0) THEN [p |-> p0, n |-> Nil]
    ELSE IF Matches(pNext(p0), {<<"(">>})
    THEN Let(pExpect(p0, <<"(">>), LAMBDA e1:
         Let(callParseExpression(e1.p), LAMBDA expr:
         Let(pExpect(expr.p, <<")">>), LAMBDA e2:
             IF Matches(pNext(expr.p), {<<",">>}) THEN parseGroupedList(expr.p, expr.n)
             ELSE [p |-> e2.p, n |-> [kind |-> "Grouping", val |-> expr.n]])))
    ELSE Let(pConsume(p0), LAMBDA c:
         Let(c.t, LAMBDA curr:
             CASE curr.kind = "Number" ->
                    IF "." \notin Range(curr.lexeme)
                    THEN [p |-> c.p, n |-> Constant("Integer", curr)]
                    ELSE IF ParseFloatOk(curr.lexeme)
                    THEN [p |-> c.p, n |-> Constant("Floating", curr)]
                    ELSE [p |-> Panic(c.p), n |-> Nil]
               [] curr.kind = "Identifier" -> [p |-> c.p, n |-> Constant("VariableReference", curr)]
               [] curr.kind = "Char" -> [p |-> c.p, n |-> Constant("Character", curr)]
               [] curr.kind = "String" -> [p |-> c.p, n |-> Constant("String", curr)]
               [] curr.kind = "EndOfFile" -> [p |-> c.p, n |-> Nil]
               [] OTHER ->
                    [p |-> pError(c.p, NewUnimplementedError("parse", p0.pos, c.p.pos)),
                     n |-> Nil]))

\* the argument loop of parseBuiltin
RECURSIVE parseBuiltinLoop(_, _)
parseBuiltinLoop(q, args) ==
    IF ~pHasNext(q) THEN [p |-> q, list |-> args]
    ELSE Let(IF Matches(pNext(q), {<<",">>}) THEN pConsume(q).p ELSE q, LAMBDA p1:
             IF Matches(pNext(p1), {<<")">>}) THEN [p |-> p1, list |-> args]
             ELSE Let(callParseExpression(p1), LAMBDA a:
                  Let(IF a.n # Nil THEN Append(args, a.n) ELSE args, LAMBDA as:
                      IF a.p.pos = q.pos /\ a.p.st = "ok"
                      THEN [p |-> Hang(a.p), list |-> as]
                      ELSE parseBuiltinLoop(a.p, as))))

parseBuiltin(p0) ==
    Let(pExpectKind(p0, "Identifier"), LAMBDA builtin:
    Let(pExpect(builtin.p, <<"!">>), LAMBDA e1:
    Let(Matches(pNext(e1.p), {<<"(">>}), LAMBDA parens:
    Let(IF parens THEN pConsume(e1.p).p ELSE e1.p, LAMBDA p1:
    Let(pExpectKind(p1, "Identifier"), LAMBDA ref:
    Let(IF parens THEN parseBuiltinLoop(ref.p, <<>>) ELSE [p |-> ref.p, list |-> <<>>], LAMBDA lp:
    Let(IF parens THEN pExpect(lp.p, <<")">>).p ELSE lp.p, LAMBDA p2:
        [p |-> p2,
         n |-> [kind |-> "Builtin", name |-> builtin.t.lexeme,
                type |-> [kind |-> "VariableReference", name |-> ref.t], args |-> lp.list]])))))))

\* the for loop of parseCall, idx counting its iterations
RECURSIVE parseCallLoop(_, _, _, _)
parseCallLoop(q, idx, params, start0) ==
    IF ~(pHasNext(q) /\ ~Matches(pNext(q), {<<")">>})) THEN [p |-> q, list |-> params]
    ELSE Let(IF idx # 0 THEN pExpect(q, <<",">>).p ELSE q, LAMBDA p1:
         Let(callParseExpression(p1), LAMBDA val:
         Let(  IF val.n = Nil
               THEN pError(val.p, NewParseError("parameter in call expression",
                                                start0, val.p.pos))
               ELSE val.p, LAMBDA p2:
             parseCallLoop(p2, idx + 1, Append(params, val.n), start0))))

parseCall(p0, left) ==
    Let(pExpect(p0, <<"(">>), LAMBDA e1:
    Let(parseCallLoop(e1.p, 0, <<>>, p0.pos), LAMBDA lp:
    Let(pExpect(lp.p, <<")">>), LAMBDA e2:
        [p |-> e2.p, n |-> [kind |-> "Call", left |-> left, params |-> lp.list]])))

parseIndex(p0, left) ==
    Let(pExpect(p0, <<"[">>), LAMBDA e1:
    Let(callParseExpression(e1.p), LAMBDA val:
    Let(  IF val.n = Nil
          THEN pError(val.p, NewParseError("expression in array index", p0.pos, val.p.pos))
          ELSE val.p, LAMBDA p1:
    Let(pExpect(p1, <<"]">>), LAMBDA e2:
        [p |-> e2.p, n |-> [kind |-> "Index", left |-> left, val |-> val.n]]))))

parseLambda(p0) ==
    Let(callParseFunctionPrototypeDeclaration(p0), LAMBDA proto:
    Let(callParseStatBlock(proto.p), LAMBDA body:
        [p |-> body.p, n |-> [kind |-> "Lambda", proto |-> proto.n, body |-> body.n]]))

\* the for loop of parseInitializer
RECURSIVE parseInitializerLoop(_, _)
parseInitializerLoop(q, els) ==
    IF ~pHasNext(q) THEN [p |-> q, list |-> els]
    ELSE Let(IF Matches(pNext(q), {<<",">>}) THEN pConsume(q).p ELSE q, LAMBDA p1:
             IF Matches(pNext(p1), {<<"}">>}) THEN [p |-> p1, list |-> els]
             ELSE Let(callParseExpression(p1), LAMBDA e:
                  Let(IF e.n # Nil THEN Append(els, e.n) ELSE els, LAMBDA es:
                      IF e.p.pos = q.pos /\ e.p.st = "ok"
                      THEN [p |-> Hang(e.p), list |-> es]
                      ELSE parseInitializerLoop(e.p, es))))

parseInitializer(p0) ==
    Let(pExpect(p0, <<":">>), LAMBDA e1:
    Let(pExpectKind(e1.p, "Identifier"), LAMBDA lhand:
    Let(pExpect(lhand.p, <<"{">>), LAMBDA e2:
    Let(parseInitializerLoop(e2.p, <<>>), LAMBDA lp:
    Let(pExpect(lp.p, <<"}">>), LAMBDA e3:
        [p |-> e3.p,
         n |-> [kind |-> "Initializer", ikind |-> "InitStructure", lhand |-> lhand.t,
                values |-> lp.list]])))))

parsePrimaryExpr(p0) ==
    IF ~pHasNext(p0) THEN [p |-> p0, n |-> Nil]
    ELSE IF Matches(pNext(p0), {struc, <<"*">>, <<"[">>, <<"(">>}) THEN callParseTypeExpression(p0)
    ELSE IF Matches(pNext(p0), {<<":">>}) THEN parseInitializer(p0)
    ELSE IF Matches(pNext(p0), {fn}) THEN parseLambda(p0)
    ELSE IF Matches(pNext(p0), unaryOperators) THEN callParseUnaryExpr(p0)
    ELSE IF Matches(pNext(p0), builtins) THEN parseBuiltin(p0)
    ELSE Let(parseOperand(p0), LAMBDA left:
             IF left.n = Nil THEN [p |-> left.p, n |-> Nil]
             ELSE IF Matches(pNext(left.p), {<<"[">>}) THEN parseIndex(left.p, left.n)
             ELSE IF Matches(pNext(left.p), {<<"(">>}) THEN parseCall(left.p, left.n)
             ELSE left)

parseLeft(p0) ==
    Let(callParsePrimaryExpr(p0), LAMBDA expr:
        IF expr.n # Nil THEN expr ELSE callParseUnaryExpr(expr.p))

parseUnaryExpr(p0) ==
    IF ~pHasNext(p0) \/ ~Matches(pNext(p0), unaryOperators) THEN [p |-> p0, n |-> Nil]
    ELSE Let(pConsume(p0), LAMBDA op:
         Let(parseLeft(op.p), LAMBDA right:
         Let(  IF right.n = Nil
               THEN pError(right.p, NewParseError("unary expression", p0.pos, right.p.pos))
               ELSE right.p, LAMBDA p1:
             [p |-> p1, n |-> [kind |-> "Unary", op |-> op.t.lexeme, val |-> right.n]])))

opPrecKeys ==
    {<<"*">>, <<"/">>, <<"%">>, <<"+">>, <<"-">>,
     <<"=", "=">>, <<"!", "=">>, <<"<">>, <<"<", "=">>, <<">">>, <<">", "=">>,
     <<"&", "&">>, <<"|", "|">>}

opPrec(op) ==
    CASE op \in {<<"*">>, <<"/">>, <<"%">>} -> 5
      [] op \in {<<"+">>, <<"-">>} -> 4
      [] op \in {<<"=", "=">>, <<"!", "=">>, <<"<">>, <<"<", "=">>, <<">">>, <<">", "=">>} -> 3
      [] op = <<"&", "&">> -> 2
      [] op = <<"|", "|">> -> 1

getOpPrec(op) == IF op \in opPrecKeys THEN opPrec(op) ELSE -1

\* parsePrec without the recursive call for a tighter operator on the right
parsePrecFlat(p0, lastPrec, left) ==
    IF ~pHasNext(p0) THEN [p |-> p0, n |-> left]
    ELSE Let(getOpPrec(pNext(p0).lexeme), LAMBDA prec:
             IF prec < lastPrec THEN [p |-> p0, n |-> left]
             ELSE IF pNext(p0).lexeme \notin opPrecKeys THEN [p |-> p0, n |-> left]
             ELSE Let(pConsume(p0), LAMBDA op:
                  Let(callParsePrimaryExpr(op.p), LAMBDA right:
                      IF right.n = Nil THEN [p |-> right.p, n |-> Nil]
                      ELSE IF ~pHasNext(right.p)
                      THEN [p |-> right.p, n |-> Binary(left, op.t.lexeme, right.n)]
                      ELSE callParsePrec(right.p, lastPrec,
                                         Binary(left, op.t.lexeme, right.n)))))

\* parsePrec with the recursive call also for an operator of equal precedence
\* on the right
parsePrecRight(p0, lastPrec, left) ==
    IF ~pHasNext(p0) THEN [p |-> p0, n |-> left]
    ELSE Let(getOpPrec(pNext(p0).lexeme), LAMBDA prec:
             IF prec < lastPrec THEN [p |-> p0, n |-> left]
             ELSE IF pNext(p0).lexeme \notin opPrecKeys THEN [p |-> p0, n |-> left]
             ELSE Let(pConsume(p0), LAMBDA op:
                  Let(callParsePrimaryExpr(op.p), LAMBDA right:
                      IF right.n = Nil THEN [p |-> right.p, n |-> Nil]
                      ELSE IF ~pHasNext(right.p)
                      THEN [p |-> right.p, n |-> Binary(left, op.t.lexeme, right.n)]
                      ELSE Let(getOpPrec(pNext(right.p).lexeme), LAMBDA nextPrec:
                           Let(  IF prec <= nextPrec
                                 THEN callParsePrec(right.p, prec, right.n)
                                 ELSE right, LAMBDA r2:
                               IF r2.n = Nil THEN [p |-> r2.p, n |-> Nil]
                               ELSE callParsePrec(r2.p, lastPrec,
                                              Binary(left, op.t.lexeme, r2.n)))))))

\* parsePrec from the head of its for loop, with the left operand so far
parsePrec(p0, lastPrec, left) ==
    IF ~pHasNext(p0) THEN [p |-> p0, n |-> left]
    ELSE Let(getOpPrec(pNext(p0).lexeme), LAMBDA prec:
             IF prec < lastPrec THEN [p |-> p0, n |-> left]
             ELSE IF pNext(p0).lexeme \notin opPrecKeys THEN [p |-> p0, n |-> left]
             ELSE Let(pConsume(p0), LAMBDA op:
                  Let(callParsePrimaryExpr(op.p), LAMBDA right:
                      IF right.n = Nil THEN [p |-> right.p, n |-> Nil]
                      ELSE IF ~pHasNext(right.p)
                      THEN [p |-> right.p, n |-> Binary(left, op.t.lexeme, right.n)]
                      ELSE Let(getOpPrec(pNext(right.p).lexeme), LAMBDA nextPrec:
                           Let(  IF prec < nextPrec
                                 THEN callParsePrec(right.p, prec + 1, right.n)
                                 ELSE right, LAMBDA r2:
                               IF r2.n = Nil THEN [p |-> r2.p, n |-> Nil]
                               ELSE callParsePrec(r2.p, lastPrec,
                                              Binary(left, op.t.lexeme, r2.n)))))))

parseAssign(p0, left) ==
    IF ~pHasNext(p0) THEN [p |-> p0, n |-> Nil]
    ELSE Let(pConsume(p0), LAMBDA op:
         Let(callParseExpression(op.p), LAMBDA right:
         Let(  IF right.n = Nil
               THEN pError(right.p, NewParseError("expression after assignment operator",
                                                  p0.pos, right.p.pos))
               ELSE right.p, LAMBDA p1:
             [p |-> p1,
              n |-> [kind |-> "Assign", lh |-> left, op |-> op.t.lexeme, rh |-> right.n]])))

\* the for loop of parseDotList
RECURSIVE parseDotListLoop(_, _, _)
parseDotListLoop(q, list, start0) ==
    IF ~(pHasNext(q) /\ Matches(pNext(q), {<<".">>})) THEN [p |-> q, list |-> list]
    ELSE Let(pExpect(q, <<".">>), LAMBDA e:
         Let(callParseExpression(e.p), LAMBDA val:
         Let(  IF val.n = Nil
               THEN pError(val.p, NewParseError("expression in dot-list", start0, val.p.pos))
               ELSE val.p, LAMBDA p1:
             parseDotListLoop(p1, Append(list, val.n), start0))))

parseDotList(p0, left) ==
    Let(parseDotListLoop(p0, <<left>>, p0.pos), LAMBDA lp:
        [p |-> lp.p, n |-> [kind |-> "Path", values |-> lp.list]])

parseExpression(p0) ==
    IF p0.st # "ok" THEN [p |-> p0, n |-> Nil]
    ELSE
    Let(parseLeft(p0), LAMBDA left:
        IF left.n = Nil THEN [p |-> left.p, n |-> Nil]
        ELSE IF Matches(pNext(left.p), {<<".">>}) THEN parseDotList(left.p, left.n)
        ELSE IF Matches(pNext(left.p), assignOperators) THEN parseAssign(left.p, left.n)
        ELSE IF pNext(left.p).lexeme \in opPrecKeys THEN callParsePrec(left.p, 0, left.n)
        ELSE left)

----------------------------------------------------------------------------
(* Statements and declarations *)

\* the argument loop of parseFunctionPrototypeDeclaration
RECURSIVE parseArgumentsLoop(_, _, _, _)
parseArgumentsLoop(q, idx, args, start0) ==
    IF ~pHasNext(q) \/ Matches(pNext(q), {<<")">>}) THEN [p |-> q, list |-> args]
    ELSE Let(IF idx # 0 THEN pExpect(q, <<",">>).p ELSE q, LAMBDA p1:
         Let(Matches(pNext(p1), {mut}), LAMBDA mutable:
         Let(IF mutable THEN pConsume(p1).p ELSE p1, LAMBDA p2:
         Let(~Matches(pNext(p2), {<<"~">>}), LAMBDA owned:
         Let(IF ~owned THEN pConsume(p2).p ELSE p2, LAMBDA p3:
         Let(pExpectKind(p3, "Identifier"), LAMBDA name:
         Let(callParseExpression(name.p), LAMBDA t:
         Let(  IF t.n = Nil
               THEN pError(t.p, NewParseError("type after pointer", start0, t.p.pos))
               ELSE t.p, LAMBDA p4:
         Let([mutable |-> mutable, name |-> name.t, owned |-> owned, type |-> t.n], LAMBDA a:
             IF p4.pos = q.pos /\ p4.st = "ok" THEN [p |-> Hang(p4), list |-> args]
             ELSE parseArgumentsLoop(p4, idx + 1, Append(args, a), start0))))))))))

parseFunctionPrototypeDeclaration(p0) ==
    Let(pExpect(p0, fn), LAMBDA e0:
    Let(pExpectKind(e0.p, "Identifier"), LAMBDA name:
    Let(pExpect(name.p, <<"(">>), LAMBDA e1:
    Let(parseArgumentsLoop(e1.p, 0, <<>>, p0.pos), LAMBDA lp:
    Let(pExpect(lp.p, <<")">>), LAMBDA e2:
    Let( IF ~Matches(pNext(e2.p), {<<"{">>, <<";">>, <<",">>})
         THEN callParseTypeExpression(e2.p)
         ELSE [p |-> e2.p, n |-> Nil], LAMBDA t:
        [p |-> t.p,
         n |-> [kind |-> "FunctionPrototype", name |-> name.t, arguments |-> lp.list,
                returnType |-> t.n]]))))))

\* the part parseMut and parseLet share: [ "~" ] name [ type ] [ "=" value ]
parseLocal(p0, kw, typeMsg, valueMsg) ==
    Let(pExpect(p0, kw), LAMBDA e0:
    Let(~Matches(pNext(e0.p), {<<"~">>}), LAMBDA owned:
    Let(IF ~owned THEN pConsume(e0.p).p ELSE e0.p, LAMBDA p1:
    Let(pExpectKind(p1, "Identifier"), LAMBDA name:
    Let(~Matches(pNext(name.p), {<<"=">>}), LAMBDA hasType:
    Let(IF hasType THEN callParseTypeExpression(name.p) ELSE [p |-> name.p, n |-> Nil], LAMBDA t:
    Let(  IF hasType /\ t.n = Nil
          THEN pError(t.p, NewParseError(typeMsg, p0.pos, t.p.pos))
          ELSE t.p, LAMBDA p2:
    Let(Matches(pNext(p2), {<<"=">>}), LAMBDA hasValue:
    Let(IF hasValue THEN callParseExpression(pExpect(p2, <<"=">>).p) ELSE [p |-> p2, n |-> Nil], LAMBDA v:
    Let(  IF hasValue /\ v.n = Nil
          THEN pError(v.p, NewParseError(valueMsg, p0.pos, v.p.pos))
          ELSE v.p, LAMBDA p3:
        [p |-> p3, name |-> name.t, owned |-> owned, type |-> t.n, value |-> v.n]))))))))))

parseMut(p0) ==
    Let(parseLocal(p0, mut, "type after assignment", "assignment"), LAMBDA r:
    Let(  IF r.value = Nil /\ r.type = Nil
          THEN pError(r.p, NewParseError("value or type in mut statement", p0.pos, r.p.pos))
          ELSE r.p, LAMBDA p1:
        [p |-> p1,
         n |-> [kind |-> "MutableStatement", name |-> r.name, owned |-> r.owned,
                type |-> r.type, value |-> r.value]]))

parseLet(p0) ==
    Let(parseLocal(p0, let, "type or assignment", "expression in let statement"), LAMBDA r:
        [p |-> r.p,
         n |-> [kind |-> "LetStatement", name |-> r.name, owned |-> r.owned,
                type |-> r.type, value |-> r.value]])

parseReturn(p0) ==
    IF ~Matches(pNext(p0), {ret}) THEN [p |-> p0, n |-> Nil]
    ELSE Let(pExpect(p0, ret), LAMBDA e:
         Let(~Matches(pNext(e.p), {<<";">>}), LAMBDA hasValue:
         Let(IF hasValue THEN callParseExpression(e.p) ELSE [p |-> e.p, n |-> Nil], LAMBDA res:
         Let(  IF hasValue /\ res.n = Nil
               THEN pError(res.p, NewParseError("semi-colon or expression",
                                                p0.pos, res.p.pos))
               ELSE res.p, LAMBDA p1:
             [p |-> p1, n |-> [kind |-> "ReturnStatement", value |-> res.n]]))))

parseNext(p0) == [p |-> pExpect(p0, next).p, n |-> [kind |-> "NextStatement"]]

parseBreak(p0) == [p |-> pExpect(p0, brk).p, n |-> [kind |-> "BreakStatement"]]

parseTypeAlias(p0) ==
    Let(pExpect(p0, typ), LAMBDA e0:
    Let(pExpectKind(e0.p, "Identifier"), LAMBDA name:
    Let(pExpect(name.p, <<"=">>), LAMBDA e1:
    Let(callParseTypeExpression(e1.p), LAMBDA t:
    Let(  IF t.n = Nil THEN pError(t.p, NewParseError("type or assignment", p0.pos, t.p.pos))
          ELSE t.p, LAMBDA p1:
        [p |-> p1, n |-> [kind |-> "TypeAliasStatement", name |-> name.t, type |-> t.n]])))))

parseLabel(p0) ==
    IF ~Matches(pNext(p0), {<<"$">>}) THEN [p |-> p0, n |-> Nil]
    ELSE Let(pExpect(p0, <<"$">>), LAMBDA e:
         Let(pExpectKind(e.p, "Identifier"), LAMBDA labelName:
             [p |-> labelName.p, n |-> [kind |-> "LabelStatement", labelName |-> labelName.t]]))

parseJump(p0) ==
    IF ~Matches(pNext(p0), {jump}) THEN [p |-> p0, n |-> Nil]
    ELSE Let(pExpect(p0, jump), LAMBDA e:
         Let(pExpectKind(e.p, "Identifier"), LAMBDA label:
             [p |-> label.p, n |-> [kind |-> "JumpStatement", location |-> label.t]]))

parseExpressionStatement(p0) ==
    Let(callParseExpression(p0), LAMBDA expr:
        IF expr.n # Nil
        THEN [p |-> expr.p, n |-> [kind |-> "ExpressionStatement", expr |-> expr.n]]
        ELSE [p |-> expr.p, n |-> Nil])

parseSemicolonStatement(p0) ==
    Let(pNext(p0), LAMBDA curr:
        IF Matches(curr, {mut}) THEN parseMut(p0)
        ELSE IF Matches(curr, {let}) THEN parseLet(p0)
        ELSE IF Matches(curr, {typ}) THEN parseTypeAlias(p0)
        ELSE IF Matches(curr, {ret}) THEN parseReturn(p0)
        ELSE IF Matches(curr, {<<"$">>}) THEN parseLabel(p0)
        ELSE IF Matches(curr, {jump}) THEN parseJump(p0)
        ELSE IF Matches(curr, {next}) THEN parseNext(p0)
        ELSE IF Matches(curr, {brk}) THEN parseBreak(p0)
        ELSE parseExpressionStatement(p0))

\* the for loop of parseStatBlock
RECURSIVE parseStatBlockLoop(_, _)
parseStatBlockLoop(q, stats) ==
    IF ~pHasNext(q) \/ Matches(pNext(q), {<<"}">>}) THEN [p |-> q, list |-> stats]
    ELSE Let(callParseStatement(q), LAMBDA stat:
         Let(IF stat.n # Nil THEN Append(stats, stat.n) ELSE stats, LAMBDA ss:
             IF stat.p.pos = q.pos /\ stat.p.st = "ok" THEN [p |-> Hang(stat.p), list |-> ss]
             ELSE parseStatBlockLoop(stat.p, ss)))

parseStatBlock(p0) ==
    IF ~Matches(pNext(p0), {<<"{">>}) THEN [p |-> p0, n |-> Nil]
    ELSE Let(pExpect(p0, <<"{">>), LAMBDA e1:
         Let(parseStatBlockLoop(e1.p, <<>>), LAMBDA lp:
         Let(pExpect(lp.p, <<"}">>), LAMBDA e2:
             [p |-> e2.p, n |-> [kind |-> "Block", statements |-> lp.list]])))

\* the else-if loop of parseIfElseChain
RECURSIVE parseElseIfLoop(_, _, _)
parseElseIfLoop(q, elses, start0) ==
    IF ~pHasNext(q) THEN [p |-> q, list |-> elses]
    ELSE Let(pExpect(q, else), LAMBDA e1:
         Let(pExpect(e1.p, iff), LAMBDA e2:
         Let(callParseExpression(e2.p), LAMBDA cond:
         Let(callParseStatBlock(cond.p), LAMBDA body:
             IF cond.n = Nil
             THEN [p |-> pError(cond.p, NewParseError("condition in else if",
                                                      start0, cond.p.pos)),
                   list |-> elses]
             ELSE IF body.n = Nil
             THEN [p |-> pError(body.p, NewParseError("block after else if",
                                                      start0, body.p.pos)),
                   list |-> elses]
             ELSE parseElseIfLoop(body.p, Append(elses, [cond |-> cond.n, block |-> body.n]),
                                  start0)))))

parseIfElseChain(p0) ==
    IF ~Matches(pNext(p0), {iff}) THEN [p |-> p0, n |-> Nil]
    ELSE Let(pExpect(p0, iff), LAMBDA e0:
         Let(callParseExpression(e0.p), LAMBDA expr:
         Let(  IF expr.n = Nil
               THEN pError(expr.p, NewParseError("condition", p0.pos, expr.p.pos))
               ELSE expr.p, LAMBDA p1:
         Let(callParseStatBlock(p1), LAMBDA block:
         Let(  IF block.n = Nil
               THEN pError(block.p, NewParseError("block after condition",
                                                  p0.pos, block.p.pos))
               ELSE block.p, LAMBDA p2:
         Let(        Matches(pNext(p2), {else})
                         /\ (pHasNext(p2) /\ Matches(pPeek(p2, 1), {iff})), LAMBDA isElseIf:
         Let(~isElseIf /\ Matches(pNext(p2), {else}), LAMBDA isElse:
         Let(  IF isElseIf THEN parseElseIfLoop(p2, <<>>, p0.pos)
               ELSE [p |-> p2, list |-> <<>>], LAMBDA lp:
         Let(    IF isElse THEN callParseStatBlock(pExpect(lp.p, else).p)
                 ELSE [p |-> lp.p, n |-> Nil], LAMBDA body:
         Let(  IF isElse /\ body.n = Nil
               THEN pError(body.p, NewParseError("block after else", p0.pos, body.p.pos))
               ELSE body.p, LAMBDA p3:
             [p |-> p3,
              n |-> [kind |-> "IfStatement", cond |-> expr.n, block |-> block.n,
                     else |-> body.n, elseIfs |-> lp.list]]))))))))))

parseWhileLoop(p0) ==
    IF ~Matches(pNext(p0), {while}) THEN [p |-> p0, n |-> Nil]
    ELSE Let(pExpect(p0, while), LAMBDA e0:
         Let(callParseExpression(e0.p), LAMBDA val:
         Let(  IF val.n = Nil
               THEN pError(val.p, NewParseError("condition after while", p0.pos, val.p.pos))
               ELSE val.p, LAMBDA p1:
         Let(Matches(pNext(p1), {<<";">>}), LAMBDA hasPost:
         Let(    IF hasPost THEN callParseExpression(pExpect(p1, <<";">>).p)
                 ELSE [p |-> p1, n |-> Nil], LAMBDA post:
         Let(  IF hasPost /\ post.n = Nil
               THEN pError(post.p, NewParseError("step expression in while loop",
                                                 p0.pos, post.p.pos))
               ELSE post.p, LAMBDA p2:
         Let(callParseStatBlock(p2), LAMBDA block:
             IF block.n # Nil
             THEN [p |-> block.p,
                   n |-> [kind |-> "WhileLoopStatement", cond |-> val.n, post |-> post.n,
                          block |-> block.n]]
             ELSE [p |-> block.p, n |-> Nil])))))))

parseDefer(p0) ==
    IF ~Matches(pNext(p0), {deferr}) THEN [p |-> p0, n |-> Nil]
    ELSE Let(pExpect(p0, deferr), LAMBDA e0:
             IF Matches(pNext(e0.p), {<<"{">>})
             THEN Let(callParseStatBlock(e0.p), LAMBDA b:
                      [p |-> b.p,
                       n |-> [kind |-> "DeferStatement", block |-> b.n, statement |-> Nil]])
             ELSE Let(callParseStatement(e0.p), LAMBDA st:
                      [p |-> st.p,
                       n |-> [kind |-> "DeferStatement", block |-> Nil, statement |-> st.n]]))

parseLoop(p0) ==
    IF ~Matches(pNext(p0), {loop}) THEN [p |-> p0, n |-> Nil]
    ELSE Let(pExpect(p0, loop), LAMBDA e0:
         Let(callParseStatBlock(e0.p), LAMBDA block:
             IF block.n # Nil
             THEN [p |-> block.p, n |-> [kind |-> "LoopStatement", block |-> block.n]]
             ELSE [p |-> block.p, n |-> Nil]))

parseStatement(p0) ==
    IF p0.st # "ok" THEN [p |-> p0, n |-> Nil]
    ELSE
    Let(pNext(p0), LAMBDA curr:
        IF Matches(curr, {iff}) THEN parseIfElseChain(p0)
        ELSE IF Matches(curr, {loop}) THEN parseLoop(p0)
        ELSE IF Matches(curr, {while}) THEN parseWhileLoop(p0)
        ELSE IF Matches(curr, {deferr}) THEN parseDefer(p0)
        ELSE IF Matches(curr, {<<"{">>})
        THEN Let(callParseStatBlock(p0), LAMBDA b:
                 [p |-> b.p, n |-> [kind |-> "BlockStatement", block |-> b.n]])
        ELSE Let(parseSemicolonStatement(p0), LAMBDA stat:
                 IF stat.n # Nil THEN [p |-> pExpect(stat.p, <<";">>).p, n |-> stat.n]
                 ELSE stat))

\* the call of the parse function named f
parse(f, p0, a) ==
    CASE f = "parseTypeExpression" -> parseTypeExpression(p0)
      [] f = "parseExpression" -> parseExpression(p0)
      [] f = "parseStatement" -> parseStatement(p0)
      [] f = "parsePrimaryExpr" -> parsePrimaryExpr(p0)
      [] f = "parseUnaryExpr" -> parseUnaryExpr(p0)
      [] f = "parsePrec" -> parsePrec(p0, a[1], a[2])
      [] f = "parseStatBlock" -> parseStatBlock(p0)
      [] f = "parseFunctionPrototypeDeclaration" -> parseFunctionPrototypeDeclaration(p0)

parseFunctionDeclaration(p0) ==
    Let(callParseFunctionPrototypeDeclaration(p0), LAMBDA proto:
    Let(callParseStatBlock(proto.p), LAMBDA body:
        [p |-> body.p,
         n |-> [kind |-> "FunctionDeclStatement", name |-> proto.n.name,
                arguments |-> proto.n.arguments, returnType |-> proto.n.returnType,
                body |-> body.n]]))

\* the for loop of parseImplDeclaration
RECURSIVE parseImplLoop(_, _)
parseImplLoop(q, functions) ==
    IF ~pHasNext(q) \/ Matches(pNext(q), {<<"}">>}) THEN [p |-> q, list |-> functions]
    ELSE Let(parseFunctionDeclaration(q), LAMBDA f:
             IF f.p.pos = q.pos /\ f.p.st = "ok" THEN [p |-> Hang(f.p), list |-> functions]
             ELSE parseImplLoop(f.p, Append(functions, f.n)))

parseImplDeclaration(p0) ==
    Let(pExpect(p0, impl), LAMBDA e0:
    Let(pExpectKind(e0.p, "Identifier"), LAMBDA name:
    Let(pExpect(name.p, <<"{">>), LAMBDA e1:
    Let(parseImplLoop(e1.p, <<>>), LAMBDA lp:
    Let(pExpect(lp.p, <<"}">>), LAMBDA e2:
        [p |-> e2.p,
         n |-> [kind |-> "ImplDeclStatement", name |-> name.t, functions |-> lp.list]])))))

\* the for loop of parseTraitDeclaration
RECURSIVE parseTraitLoop(_, _)
parseTraitLoop(q, members) ==
    IF ~pHasNext(q) \/ Matches(pNext(q), {<<"}">>}) THEN [p |-> q, list |-> members]
    ELSE Let(callParseFunctionPrototypeDeclaration(q), LAMBDA pt:
         Let(pExpect(pt.p, <<";">>), LAMBDA e:
             IF e.p.pos = q.pos /\ e.p.st = "ok" THEN [p |-> Hang(e.p), list |-> members]
             ELSE parseTraitLoop(e.p, Append(members, pt.n))))

parseTraitDeclaration(p0) ==
    Let(pExpect(p0, trait), LAMBDA e0:
    Let(pExpectKind(e0.p, "Identifier"), LAMBDA name:
    Let(pExpect(name.p, <<"{">>), LAMBDA e1:
    Let(parseTraitLoop(e1.p, <<>>), LAMBDA lp:
    Let(pExpect(lp.p, <<"}">>), LAMBDA e2:
        [p |-> e2.p,
         n |-> [kind |-> "TraitDeclStatement", name |-> name.t, members |-> lp.list]])))))

\* the for loop of skipDirective
RECURSIVE skipDirectiveLoop(_)
skipDirectiveLoop(q) ==
    IF pHasNext(q) /\ ~Matches(pNext(q), {<<"}">>}) THEN skipDirectiveLoop(pConsume(q).p)
    ELSE q

skipDirective(p0) ==
    pExpect(skipDirectiveLoop(pExpect(pExpect(p0, <<"#">>).p, <<"{">>).p), <<"}">>).p

parseNode(p0) ==
    Let(pNext(p0), LAMBDA curr:
    LET semi(r) == [p |-> pExpect(r.p, <<";">>).p, n |-> r.n]
    IN  (
        IF Matches(curr, {<<"#">>}) THEN [p |-> skipDirective(p0), n |-> Nil]
        ELSE IF Matches(curr, {trait}) THEN parseTraitDeclaration(p0)
        ELSE IF Matches(curr, {impl}) THEN parseImplDeclaration(p0)
        ELSE IF Matches(curr, {fn}) THEN parseFunctionDeclaration(p0)
        ELSE IF Matches(curr, {typ}) THEN semi(parseTypeAlias(p0))
        ELSE IF Matches(curr, {mut}) THEN semi(parseMut(p0))
        ELSE IF Matches(curr, {let}) THEN semi(parseLet(p0))
        ELSE Let(parseExpressionStatement(p0), LAMBDA res:
             Let(  IF res.n = Nil
                   THEN pError(res.p, NewUnimplementedError("parse", p0.pos, res.p.pos))
                   ELSE res.p, LAMBDA p1:
                 [p |-> pExpect(p1, <<";">>).p, n |-> res.n]))))

\* the for loop of ParseTokenStream
RECURSIVE parseNodes(_, _)
parseNodes(q, nodes) ==
    IF ~pHasNext(q) THEN [p |-> q, nodes |-> nodes]
    ELSE Let(parseNode(q), LAMBDA r:
         Let(IF r.n # Nil THEN Append(nodes, r.n) ELSE nodes, LAMBDA ns:
             IF r.p.pos = q.pos /\ r.p.st = "ok" THEN [p |-> Hang(r.p), nodes |-> ns]
             ELSE parseNodes(r.p, ns)))

\* ParseTokenStream: the nodes, the diagnostics and how the call ended
ParseTokenStream(st) ==
    Let(parseNodes(Parser(st), <<>>), LAMBDA r:
        [nodes |-> r.nodes, errors |-> r.p.errors, st |-> r.p.st])

----------------------------------------------------------------------------
(* The parser's specification: a source text is lexed into the token       *)
(* stream, which is then given to parseExpression or to ParseTokenStream.  *)

\* the words the enumerated sources are made of
Words == {<<"a">>, <<"1">>, <<"+">>, <<".">>, <<"=">>, <<";">>, <<"(">>, <<")">>}

\* the words of ws, each followed by a blank
RECURSIVE Join(_)
Join(ws) == IF ws = <<>> THEN <<>> ELSE Head(ws) \o <<" ">> \o Join(Tail(ws))

\* the operands of the enumerated binary expressions
Operands == {<<"b">>, <<"1">>, <<"\"", "s", "\"">>}

\* a op1 b op2 c, alone and as a statement
BinarySources ==
    {Join(<<x, op1, y, op2, z>> \o t) :
        x \in {<<"a">>}, y \in Operands, z \in {<<"c">>},
        op1 \in opPrecKeys, op2 \in opPrecKeys, t \in {<<>>, << <<";">> >>}}

SrcPath3 == <<"a", ".", "b", ".", "c">>

\* (1 + 2) * 3
SrcGrouped == <<"(", "1", " ", "+", " ", "2", ")", " ", "*", " ", "3">>

\* a op b for the assignment operators, and a = b = c
AssignSources ==
    {<<"a", " ">> \o op \o <<" ", "b">> :
        op \in {<<"=">>, <<"+", "=">>, <<"-", "=">>, <<"*", "=">>, <<"/", "=">>}}
        \cup {<<"a", " ", "=", " ", "b", " ", "=", " ", "c">>}

\* fn f() { if a { } else if b { } else { } c; }
SrcIfChain ==
    <<"f", "n", " ", "f", "(", ")", " ", "{", " ", "i", "f", " ", "a", " ", "{", " ", "}",
      " ", "e", "l", "s", "e", " ", "i", "f", " ", "b", " ", "{", " ", "}", " ", "e", "l",
      "s", "e", " ", "{", " ", "}", " ", "c", ";", " ", "}">>

ParseSamples ==
    {SrcPath3, SrcPath3 \o <<";">>, <<"a", ".", "b">>, <<"a", ".", "b", ".", "c", ".", "d">>,
     SrcGrouped, SrcIfChain} \cup AssignSources

ParseSources ==
    {Join(ws) : ws \in SeqsUpTo(Words, MaxTokens)} \cup BinarySources \cup ParseSamples

LexIdle ==
    /\ input = <<>>
    /\ pos = 0
    /\ start = 0
    /\ width = 0
    /\ stream = <<>>
    /\ lexState = "nil"

ParseInit ==
    /\ LexIdle
    /\ \E src \in ParseSources : tokens = tokenizeInput(src).l.stream
    /\ parsedExpr = Nil
    /\ parsedNodes = <<>>
    /\ perrors = <<>>
    /\ parseState = "ready"
    /\ MidIdle

\* parseExpression on a fresh parser over the stream
ParseExpr ==
    /\ parseState = "ready"
    /\ Let(callParseExpression(Parser(tokens)), LAMBDA r:
           /\ parsedExpr' = r.n
           /\ perrors' = r.p.errors
           /\ parseState' = IF r.p.st = "ok" THEN "expr" ELSE r.p.st)
    /\ UNCHANGED <<lexVars, tokens, parsedNodes, midVars>>

\* ParseTokenStream on the stream
ParseStream ==
    /\ parseState = "ready"
    /\ Let(ParseTokenStream(tokens), LAMBDA r:
           /\ parsedNodes' = r.nodes
           /\ perrors' = r.errors
           /\ parseState' = IF r.st = "ok" THEN "done" ELSE r.st)
    /\ UNCHANGED <<lexVars, tokens, parsedExpr, midVars>>

ParseNext == ParseExpr \/ ParseStream

SpecParse == ParseInit /\ [][ParseNext]_vars

----------------------------------------------------------------------------
(* Properties of the parser *)

\* the node parseOperand builds from a lone number, string or identifier token
OperandNode(tok) ==
    Constant(CASE tok.kind = "Number" -> "Integer"
               [] tok.kind = "String" -> "String"
               [] tok.kind = "Identifier" -> "VariableReference", tok)

\* a token parseOperand turns into a constant: an integer, a string, or an
\* identifier that starts no other primary expression
IsOperandToken(tok) ==
    \/ tok.kind = "Number" /\ "." \notin Range(tok.lexeme)
    \/ tok.kind = "String"
    \/ tok.kind = "Identifier" /\ tok.lexeme \notin {struc, fn} \cup builtins

\* the stream is a op1 b op2 c, alone or before a ";", with op2 binding
\* strictly tighter than op1
TighterRight ==
    /\ \/ Len(tokens) = 5
       \/ Len(tokens) = 6 /\ tokens[6].lexeme = <<";">>
    /\ \A i \in {1, 3, 5} : IsOperandToken(tokens[i])
    /\ \A i \in {2, 4} : tokens[i].kind = "Symbol" /\ tokens[i].lexeme \in opPrecKeys
    /\ opPrec(tokens[4].lexeme) > opPrec(tokens[2].lexeme)

\* C3: for operands a, b, c and operators op1, op2 of the precedence table
\* with op2 binding strictly tighter than op1, parsing a op1 b op2 c yields
\* Binary(a, op1, Binary(b, op2, c)).
C3_TighterRightNests ==
    (parseState = "expr" /\ TighterRight) =>
        parsedExpr = Binary(OperandNode(tokens[1]), tokens[2].lexeme,
                            Binary(OperandNode(tokens[3]), tokens[4].lexeme,
                                   OperandNode(tokens[5])))

\* 1 + "s" * c has been parsed
C3_Witness ==
    /\ parseState = "expr"
    /\ TighterRight
    /\ tokens[2].lexeme = <<"+">>
    /\ tokens[4].lexeme = <<"*">>
    /\ parsedExpr.kind = "Binary"

\* the stream is a op1 b op2 c, alone or before a ";", with op1 binding at
\* least as tight as op2
LooserRight ==
    /\ \/ Len(tokens) = 5
       \/ Len(tokens) = 6 /\ tokens[6].lexeme = <<";">>
    /\ \A i \in {1, 3, 5} : IsOperandToken(tokens[i])
    /\ \A i \in {2, 4} : tokens[i].kind = "Symbol" /\ tokens[i].lexeme \in opPrecKeys
    /\ opPrec(tokens[2].lexeme) >= opPrec(tokens[4].lexeme)

\* C19: binary operators of equal precedence associate to the left: for
\* operands a, b, c and operators op1, op2 of the precedence table with
\* prec(op1) >= prec(op2), parsing a op1 b op2 c yields
\* Binary(Binary(a, op1, b), op2, c).
C19_LeftAssociative ==
    (parseState \notin {"idle", "ready", "done"} /\ LooserRight) =>
        /\ parseState = "expr"
        /\ parsedExpr = Binary(Binary(OperandNode(tokens[1]), tokens[2].lexeme,
                                      OperandNode(tokens[3])),
                               tokens[4].lexeme, OperandNode(tokens[5]))

\* a - 1 + c has been parsed: two operators of equal precedence
C19_Witness ==
    /\ parseState = "expr"
    /\ LooserRight
    /\ tokens[2].lexeme = <<"-">>
    /\ tokens[3].lexeme = <<"1">>
    /\ tokens[4].lexeme = <<"+">>
    /\ parsedExpr.kind = "Binary"
    /\ parsedExpr.lh.kind = "Binary"

\* C4: parsing a.b.c yields one Path node whose elements are exactly the
\* three identifiers a, b, c, none of them a Path itself.
C4_PathIsFlat ==
    (/\ parseState = "expr"
     /\ KindsAndLexemes(tokens) = << <<"Identifier", <<"a">> >>, <<"Symbol", <<".">> >>,
                                    <<"Identifier", <<"b">> >>, <<"Symbol", <<".">> >>,
                                    <<"Identifier", <<"c">> >> >>) =>
        /\ parsedExpr.kind = "Path"
        /\ parsedExpr.values = <<OperandNode(tokens[1]), OperandNode(tokens[3]),
                                 OperandNode(tokens[5])>>

\* C12: parsing (1 + 2) * 3 terminates and yields
\* Binary(Grouping(Binary(1, +, 2)), *, 3).
C12_GroupingParsed ==
    (/\ parseState \notin {"idle", "ready", "done"}
     /\ [i \in DOMAIN tokens |-> tokens[i].lexeme] =
            << <<"(">>, <<"1">>, <<"+">>, <<"2">>, <<")">>, <<"*">>, <<"3">> >>) =>
        /\ parseState = "expr"
        /\ parsedExpr = Binary([kind |-> "Grouping",
                                val |-> Binary(OperandNode(tokens[2]), <<"+">>,
                                               OperandNode(tokens[4]))],
                               <<"*">>, OperandNode(tokens[7]))

\* the tokens of a op b, op an assignment operator written without a blank
IsAssignSource ==
    /\ Len(tokens) \in {3, 4}
    /\ tokens[1].lexeme = <<"a">>
    /\ tokens[Len(tokens)].lexeme = <<"b">>
    /\ tokens[Len(tokens) - 1].lexeme = <<"=">>
    /\ Len(tokens) = 4 =>
          /\ tokens[2].lexeme \in {<<"+">>, <<"-">>, <<"*">>, <<"/">>}
          /\ tokens[2].span[2] = tokens[3].span[1]

\* C13: for op in =, +=, -=, *=, /= the tokens of a op b parse to the one
\* node Assign(a, op, b), and a = b = c parses to Assign(a, =, Assign(b, =, c)).
C13_AssignParsed ==
    /\ (parseState \notin {"idle", "ready", "done"} /\ IsAssignSource) =>
           /\ parseState = "expr"
           /\ parsedExpr = [kind |-> "Assign", lh |-> OperandNode(tokens[1]),
                            op |-> IF Len(tokens) = 3 THEN <<"=">>
                                   ELSE tokens[2].lexeme \o <<"=">>,
                            rh |-> OperandNode(tokens[Len(tokens)])]
    /\ (/\ parseState \notin {"idle", "ready", "done"}
        /\ [i \in DOMAIN tokens |-> tokens[i].lexeme] =
               << <<"a">>, <<"=">>, <<"b">>, <<"=">>, <<"c">> >>) =>
           /\ parseState = "expr"
           /\ parsedExpr = [kind |-> "Assign", lh |-> OperandNode(tokens[1]), op |-> <<"=">>,
                            rh |-> [kind |-> "Assign", lh |-> OperandNode(tokens[3]),
                                    op |-> <<"=">>, rh |-> OperandNode(tokens[5])]]

\* the lexemes of the tokens of SrcIfChain
IfChainLexemes ==
    << <<"f", "n">>, <<"f">>, <<"(">>, <<")">>, <<"{">>, <<"i", "f">>, <<"a">>, <<"{">>, <<"}">>, <<"e", "l", "s", "e">>, <<"i", "f">>, <<"b">>, <<"{">>, <<"}">>, <<"e", "l", "s", "e">>, <<"{">>, <<"}">>, <<"c">>, <<";">>, <<"}">> >>

\* the statements of the body of the one function parsed from the tokens
BodyOfFirst == parsedNodes[1].body.statements

\* C15: parsing fn f() { if a { } else if b { } else { } c; } yields one If
\* node with condition a, exactly one else-if entry (condition b) and an else
\* block that is present, records no diagnostic, and leaves c; to be parsed
\* as a separate statement.
C15_IfChainParsed ==
    (/\ parseState \notin {"idle", "ready", "expr"}
     /\ [i \in DOMAIN tokens |-> tokens[i].lexeme] = IfChainLexemes) =>
        /\ parseState = "done"
        /\ perrors = <<>>
        /\ Len(parsedNodes) = 1
        /\ Len(BodyOfFirst) = 2
        /\ BodyOfFirst[1].kind = "IfStatement"
        /\ BodyOfFirst[1].cond = OperandNode(tokens[7])
        /\ Len(BodyOfFirst[1].elseIfs) = 1
        /\ BodyOfFirst[1].elseIfs[1].cond = OperandNode(tokens[12])
        /\ BodyOfFirst[1].else # Nil
        /\ BodyOfFirst[2].kind = "ExpressionStatement"

\* C22: ParseTokenStream terminates on every finite token sequence: every
\* loop of the parser consumes at least one token per iteration or exits, also
\* when an element fails to parse (tokens ( 1 )), so that no call of
\* ParseTokenStream repeats one parser state for ever.
C22_ParseTokenStreamTerminates ==
    [][ParseStream => parseState' # "hang"]_vars

----------------------------------------------------------------------------
(* The IR builder: types and expressions.  A build function yields the     *)
(* value it returns, or Panicked when the call panicked.                   *)

Panicked == [kind |-> "panic"]

\* the rest F of a function body after a call that returned v
Then(v, F(_)) == IF v = Panicked THEN Panicked ELSE F(v)

\* the names of the PrimitiveType table
PrimitiveNames == {<<"i", "n", "t">>, <<"b", "o", "o", "l">>}

\* the type node held by an AST type field
TypeNode(node) == IF node.kind = "TypeExpression" THEN node.type ELSE node

RECURSIVE builder(_, _, _)

callBuildExpr(expr) == builder("buildExpr", Nil, expr)

callBuildType(node) == builder("buildType", Nil, node)

callBuildStat(b, stat) == builder("buildStat", b, stat)

callBuildBlock(b, block) == builder("buildBlock", b, block)

\* the values of the expressions es, in order
RECURSIVE buildExprs(_)
buildExprs(es) ==
    IF es = <<>> THEN [kind |-> "Values", list |-> <<>>]
    ELSE Then(callBuildExpr(Head(es)), LAMBDA v:
         Then(buildExprs(Tail(es)), LAMBDA vs:
             [kind |-> "Values", list |-> <<v>> \o vs.list]))

buildUnresolvedType(u) ==
    IF u.name \in PrimitiveNames THEN [kind |-> "Primitive", name |-> u.name]
    ELSE [kind |-> "Reference", name |-> u.name]

buildPointerType(pt) ==
    Then(callBuildType(pt.base), LAMBDA base: [kind |-> "Pointer", base |-> base])

buildArrayType(at) ==
    Then(callBuildExpr(at.size), LAMBDA size:
    Then(callBuildType(at.base), LAMBDA base:
        [kind |-> "Array", base |-> base, size |-> size]))

\* the for loop of buildTupleType
RECURSIVE buildTupleTypes(_)
buildTupleTypes(ts) ==
    IF ts = <<>> THEN [kind |-> "Values", list |-> <<>>]
    ELSE Then(callBuildType(Head(ts)), LAMBDA t:
         Then(buildTupleTypes(Tail(ts)), LAMBDA rest:
             [kind |-> "Values", list |-> <<t>> \o rest.list]))

buildTupleType(tup) ==
    Then(buildTupleTypes(tup.types), LAMBDA ts: [kind |-> "Tuple", types |-> ts.list])

\* a nil node is dereferenced by node.Kind
buildType(node0) ==
    IF node0 = Nil THEN Panicked
    ELSE Let(TypeNode(node0), LAMBDA node:
             CASE node.kind = "UnresolvedType" -> buildUnresolvedType(node)
               [] node.kind = "PointerType" -> buildPointerType(node)
               [] node.kind = "TupleType" -> buildTupleType(node)
               [] node.kind = "ArrayType" -> buildArrayType(node)
               [] OTHER -> Panicked)

buildBinaryExpr(e) ==
    Then(callBuildExpr(e.lh), LAMBDA lh:
    Then(callBuildExpr(e.rh), LAMBDA rh:
        [kind |-> "Binary", lh |-> lh, op |-> e.op, rh |-> rh]))

buildUnaryExpr(u) ==
    Then(callBuildExpr(u.val), LAMBDA val: [kind |-> "Unary", op |-> u.op, val |-> val])

buildGrouping(g) ==
    Then(callBuildExpr(g.val), LAMBDA val: [kind |-> "Grouping", val |-> val])

buildBuiltin(e) ==
    Then(buildExprs(e.args), LAMBDA args:
    Then(callBuildType(e.type), LAMBDA t:
        [kind |-> "Builtin", name |-> e.name, type |-> t, args |-> args.list]))

buildCallExpression(e) ==
    Then(callBuildExpr(e.left), LAMBDA left:
    Then(buildExprs(e.params), LAMBDA params:
        [kind |-> "Call", left |-> left, params |-> params.list]))

buildIndexExpression(i) ==
    Then(callBuildExpr(i.left), LAMBDA left:
    Then(callBuildExpr(i.val), LAMBDA sub:
        [kind |-> "Index", left |-> left, sub |-> sub]))

\* the for loop of buildPathExpression, with the values so far
RECURSIVE buildPathValues(_, _)
buildPathValues(es, values) ==
    IF es = <<>> THEN [kind |-> "Values", list |-> values]
    ELSE Then(callBuildExpr(Head(es)), LAMBDA val:
             IF val.kind = "Path" THEN buildPathValues(Tail(es), values \o val.values)
             ELSE buildPathValues(Tail(es), Append(values, val)))

buildPathExpression(pe) ==
    Then(buildPathValues(pe.values, <<>>), LAMBDA vs: [kind |-> "Path", values |-> vs.list])

buildConst(e) ==
    CASE e.ckind = "Integer" -> [kind |-> "Integer", value |-> e.value]
      [] e.ckind = "Floating" -> [kind |-> "Floating", value |-> e.value]
      [] e.ckind = "String" -> [kind |-> "String", value |-> e.value]
      [] e.ckind = "Character" -> [kind |-> "Character", value |-> e.value]
      [] e.ckind = "VariableReference" -> [kind |-> "Identifier", name |-> e.tok]
      [] OTHER -> Panicked

buildLambda(expr) == [kind |-> "Empty"]

buildInitializerList(init) ==
    Then(buildExprs(init.values), LAMBDA vals:
        [kind |-> "Init", ikind |-> init.ikind,
         iden |-> IF init.ikind = "InitStructure" THEN init.lhand ELSE BadToken,
         values |-> vals.list])

buildAssignStat(a) ==
    Then(callBuildExpr(a.lh), LAMBDA lh:
    Then(callBuildExpr(a.rh), LAMBDA rh:
        [kind |-> "Assign", lh |-> lh, op |-> a.op, rh |-> rh]))

\* a nil expression is dereferenced by expr.Kind; a Path without values is
\* indexed out of range
buildExpr(expr) ==
    IF expr = Nil THEN Panicked
    ELSE CASE expr.kind = "Constant" -> buildConst(expr)
           [] expr.kind = "Lambda" -> buildLambda(expr)
           [] expr.kind = "Binary" -> buildBinaryExpr(expr)
           [] expr.kind = "Grouping" -> buildGrouping(expr)
           [] expr.kind = "Builtin" -> buildBuiltin(expr)
           [] expr.kind = "Unary" -> buildUnaryExpr(expr)
           [] expr.kind = "Assign" -> buildAssignStat(expr)
           [] expr.kind = "Call" -> buildCallExpression(expr)
           [] expr.kind = "Path" ->
                Then(buildPathExpression(expr), LAMBDA pe:
                    IF pe.values = <<>> THEN Panicked
                    ELSE Let(pe.values[Len(pe.values)], LAMBDA last:
                             IF last.kind = "Binary"
                             THEN [last EXCEPT
                                     !.lh = [pe EXCEPT !.values[Len(pe.values)] = last.lh]]
                             ELSE pe))
           [] expr.kind = "Index" -> buildIndexExpression(expr)
           [] expr.kind = "Initializer" -> buildInitializerList(expr)
           [] OTHER -> Panicked

----------------------------------------------------------------------------
(* The IR builder: statements.  The builder b carries the module, the     *)
(* diagnostics, the symbol tables allocated so far (stabs, a table being   *)
(* named by its index, 0 for nil) and whether a call panicked (st).  A     *)
(* build function yields [b |-> the builder after it, n |-> its result].   *)

BPanic(b) == [b EXCEPT !.st = "panic"]

\* the result v of an expression-level call, as the result of a statement
Built(b, v) == IF v = Panicked THEN [b |-> BPanic(b), n |-> Nil] ELSE [b |-> b, n |-> v]

\* a new SymbolTable
NewSymbolTable(b) ==
    [b |-> [b EXCEPT !.stabs = Append(b.stabs, [types |-> <<>>, outer |-> 0])],
     n |-> Len(b.stabs) + 1]

NewBlock(b) ==
    Let(NewSymbolTable(b), LAMBDA t:
        [b |-> t.b, n |-> [instr |-> <<>>, defers |-> <<>>, ret |-> Nil, stab |-> t.n]])

PushDefer(blk, d) == [blk EXCEPT !.defers = Append(blk.defers, d)]

SetReturn(blk, st) == [blk EXCEPT !.ret = st]

AddInstr(blk, st) == [blk EXCEPT !.instr = Append(blk.instr, st)]

\* the value or type of an optional field: nil stays nil
Optional(node, F(_)) == IF node = Nil THEN Nil ELSE F(node)

buildLetStat(l) ==
    Then(Optional(l.value, callBuildExpr), LAMBDA val:
    Then(Optional(l.type, callBuildType), LAMBDA t:
        [kind |-> "Local", name |-> l.name, type |-> t, owned |-> l.owned,
         val |-> val, mutable |-> TRUE]))

buildMutStat(m) ==
    Then(Optional(m.value, callBuildExpr), LAMBDA val:
    Then(Optional(m.type, callBuildType), LAMBDA t:
        IF m.type = Nil /\ val = Nil THEN Panicked
        ELSE [kind |-> "Local", name |-> m.name, type |-> t, owned |-> m.owned,
              val |-> val, mutable |-> TRUE]))

buildReturnStat(r) ==
    Then(Optional(r.value, callBuildExpr), LAMBDA val: [kind |-> "Return", val |-> val])

buildWhileLoopStat(b0, w) ==
    Let(callBuildExpr(w.cond), LAMBDA cond:
    Let(Optional(w.post, callBuildExpr), LAMBDA post:
        IF cond = Panicked \/ post = Panicked THEN [b |-> BPanic(b0), n |-> Nil]
        ELSE Let(callBuildBlock(b0, w.block), LAMBDA body:
                 [b |-> body.b,
                  n |-> [kind |-> "WhileLoop", cond |-> cond, post |-> post,
                         body |-> body.n]])))

buildLoopStat(b0, l) ==
    Let(callBuildBlock(b0, l.block), LAMBDA body:
        [b |-> body.b, n |-> [kind |-> "Loop", body |-> body.n]])

\* the for loop of buildBlock, with the block so far
RECURSIVE buildBlockLoop(_, _, _)
buildBlockLoop(b0, stats, res) ==
    IF stats = <<>> \/ b0.st # "ok" THEN [b |-> b0, n |-> res]
    ELSE Let(callBuildStat(b0, Head(stats)), LAMBDA st:
             IF st.b.st # "ok" \/ st.n = Nil THEN buildBlockLoop(st.b, Tail(stats), res)
             ELSE CASE st.n.kind = "Defer" ->
                         buildBlockLoop(st.b, Tail(stats), PushDefer(res, st.n))
                    [] st.n.kind = "Return" ->
                         buildBlockLoop(st.b, Tail(stats), SetReturn(res, st.n))
                    [] OTHER ->
                         buildBlockLoop(st.b, Tail(stats), AddInstr(res, st.n)))

\* a nil block is dereferenced by block.Statements
buildBlock(b0, block) ==
    IF block = Nil THEN [b |-> BPanic(b0), n |-> Nil]
    ELSE Let(NewBlock(b0), LAMBDA res: buildBlockLoop(res.b, block.statements, res.n))

\* the else-if loop of buildIfStat
RECURSIVE buildElseIfs(_, _, _)
buildElseIfs(b0, elifs, elses) ==
    IF elifs = <<>> \/ b0.st # "ok" THEN [b |-> b0, n |-> elses]
    ELSE Let(callBuildExpr(Head(elifs).cond), LAMBDA cond:
             IF cond = Panicked THEN [b |-> BPanic(b0), n |-> elses]
             ELSE Let(callBuildBlock(b0, Head(elifs).block), LAMBDA block:
                      buildElseIfs(block.b, Tail(elifs),
                                   Append(elses, [cond |-> cond, body |-> block.n]))))

buildIfStat(b0, i) ==
    Let(callBuildExpr(i.cond), LAMBDA cond:
        IF cond = Panicked THEN [b |-> BPanic(b0), n |-> Nil]
        ELSE Let(callBuildBlock(b0, i.block), LAMBDA t:
             Let(buildElseIfs(t.b, i.elseIfs, <<>>), LAMBDA elses:
             Let(IF i.else # Nil /\ elses.b.st = "ok" THEN callBuildBlock(elses.b, i.else)
                 ELSE [b |-> elses.b, n |-> Nil], LAMBDA f:
                 [b |-> f.b,
                  n |-> [kind |-> "IfStatement", cond |-> cond, true |-> t.n,
                         elseIf |-> elses.n, else |-> f.n]]))))

buildDefer(b0, def) ==
    Let(IF def.statement # Nil THEN callBuildStat(b0, def.statement)
        ELSE [b |-> b0, n |-> Nil], LAMBDA stat:
    Let(IF def.block # Nil /\ stat.b.st = "ok" THEN callBuildBlock(stat.b, def.block)
        ELSE [b |-> stat.b, n |-> Nil], LAMBDA block:
        [b |-> block.b, n |-> [kind |-> "Defer", stat |-> stat.n, block |-> block.n]]))

\* a nil statement is dereferenced by stat.Kind
buildStat(b0, stat) ==
    IF stat = Nil THEN [b |-> BPanic(b0), n |-> Nil]
    ELSE CASE stat.kind = "BlockStatement" ->
                Let(callBuildBlock(b0, stat.block), LAMBDA body:
                    [b |-> body.b, n |-> [kind |-> "Block", block |-> body.n]])
           [] stat.kind = "LetStatement" -> Built(b0, buildLetStat(stat))
           [] stat.kind = "MutableStatement" -> Built(b0, buildMutStat(stat))
           [] stat.kind = "ReturnStatement" -> Built(b0, buildReturnStat(stat))
           [] stat.kind = "BreakStatement" -> [b |-> b0, n |-> [kind |-> "Break"]]
           [] stat.kind = "NextStatement" -> [b |-> b0, n |-> [kind |-> "Next"]]
           [] stat.kind = "LoopStatement" -> buildLoopStat(b0, stat)
           [] stat.kind = "WhileLoopStatement" -> buildWhileLoopStat(b0, stat)
           [] stat.kind = "IfStatement" -> buildIfStat(b0, stat)
           [] stat.kind = "DeferStatement" -> buildDefer(b0, stat)
           [] stat.kind = "ExpressionStatement" ->
                Built(b0, Then(callBuildExpr(stat.expr), LAMBDA v:
                                  [kind |-> "ExpressionStatement", val |-> v]))
           [] stat.kind = "JumpStatement" ->
                [b |-> b0, n |-> [kind |-> "Jump", location |-> stat.location]]
           [] stat.kind = "LabelStatement" ->
                [b |-> b0, n |-> [kind |-> "Label", name |-> stat.labelName]]
           [] OTHER -> [b |-> BPanic(b0), n |-> Nil]

\* the call of the build function named f
builder(f, b0, node) ==
    CASE f = "buildExpr" -> buildExpr(node)
      [] f = "buildType" -> buildType(node)
      [] f = "buildStat" -> buildStat(b0, node)
      [] f = "buildBlock" -> buildBlock(b0, node)

----------------------------------------------------------------------------
(* The module and its registries.  A registry maps a name (the lexeme of   *)
(* its token) to what is registered under it.                              *)

Put(m, k, v) == (k :> v) @@ m

Root == 1

NewModule(name) ==
    [name |-> name, structures |-> <<>>, impls |-> <<>>, functions |-> <<>>,
     functionOrder |-> <<>>, root |-> Root]

newBuilder(mod) ==
    [mod |-> mod, errors |-> <<>>, st |-> "ok",
     stabs |-> <<[types |-> <<>>, outer |-> 0]>>]

bError(b, err) == [b EXCEPT !.errors = Append(b.errors, err)]

Void == [kind |-> "Primitive", name |-> <<"v", "o", "i", "d">>]

NewFunction(b, name, mutabilityTable, params, rtype) ==
    Let(NewSymbolTable(b), LAMBDA t:
        [b |-> t.b,
         n |-> [name |-> name, mutability |-> mutabilityTable, params |-> params,
                ret |-> rtype, body |-> Nil, stab |-> t.n]])

NewImpl(name) == [name |-> name, methods |-> <<>>]

declareStructure(node) == [kind |-> "Structure", name |-> node.name, fields |-> <<>>]

RegisterStructure(m, structure) ==
    [m EXCEPT !.structures = Put(@, structure.name.lexeme, structure)]

\* TRUE when an impl of that name was registered before; the first one stays
RegisterImpl(m, im) ==
    IF im.name.lexeme \in DOMAIN m.impls THEN [m |-> m, dup |-> TRUE]
    ELSE [m |-> [m EXCEPT !.impls = Put(@, im.name.lexeme, im)], dup |-> FALSE]

\* FALSE when the impl has a method of that name; the first one stays
RegisterMethod(im, f) ==
    IF f.name.lexeme \in DOMAIN im.methods THEN [impl |-> im, ok |-> FALSE]
    ELSE [impl |-> [im EXCEPT !.methods = Put(@, f.name.lexeme, f)], ok |-> TRUE]

RegisterFunction(m, f) ==
    [m EXCEPT !.functions = Put(@, f.name.lexeme, f),
              !.functionOrder = Append(@, f.name)]

\* the blocks an instruction holds
InstrBlocks(i) ==
    CASE i.kind = "Block" -> <<i.block>>
      [] i.kind = "IfStatement" ->
            <<i.true>> \o [k \in 1..Len(i.elseIf) |-> i.elseIf[k].body]
                       \o (IF i.else = Nil THEN <<>> ELSE <<i.else>>)
      [] i.kind \in {"WhileLoop", "Loop"} -> <<i.body>>
      [] i.kind = "Defer" -> IF i.block = Nil THEN <<>> ELSE <<i.block>>
      [] OTHER -> <<>>

\* the Outer links of the scopes of a block: a tree that follows the nesting
RECURSIVE linkBlock(_, _, _), linkBlocks(_, _, _), linkInstrs(_, _, _)
linkBlock(stabs, blk, outer) ==
    linkInstrs([stabs EXCEPT ![blk.stab].outer = outer], blk.instr \o blk.defers, blk.stab)

linkBlocks(stabs, blks, outer) ==
    IF blks = <<>> THEN stabs
    ELSE linkBlocks(linkBlock(stabs, Head(blks), outer), Tail(blks), outer)

linkInstrs(stabs, instrs, outer) ==
    IF instrs = <<>> THEN stabs
    ELSE linkInstrs(linkBlocks(stabs, InstrBlocks(Head(instrs)), outer), Tail(instrs), outer)

\* the scope of a function hangs below the root, its body below it
linkFunction(stabs, f) ==
    linkBlock([stabs EXCEPT ![f.stab].outer = Root], f.body, f.stab)

----------------------------------------------------------------------------
(* The IR builder: declarations *)

\* the parameter loop of buildFunc
RECURSIVE buildParams(_)
buildParams(args) ==
    IF args = <<>> THEN [kind |-> "Values", list |-> <<>>]
    ELSE Then(callBuildType(Head(args).type), LAMBDA t:
         Then(buildParams(Tail(args)), LAMBDA rest:
             [kind |-> "Values",
              list |-> <<[name |-> Head(args).name, owned |-> Head(args).owned,
                          type |-> t]>> \o rest.list]))

buildFunc(b0, node) ==
    Let(buildParams(node.arguments), LAMBDA params:
    Let(IF node.returnType # Nil THEN callBuildType(node.returnType) ELSE Void, LAMBDA rtype:
        IF params = Panicked \/ rtype = Panicked THEN [b |-> BPanic(b0), n |-> Nil]
        ELSE Let(NewFunction(b0, node.name,
                             [i \in 1..Len(node.arguments) |-> node.arguments[i].mutable],
                             params.list, rtype), LAMBDA nf:
             Let(callBuildBlock(nf.b, node.body), LAMBDA body:
                 IF body.b.st # "ok" THEN [b |-> body.b, n |-> Nil]
                 ELSE Let([nf.n EXCEPT !.body = body.n], LAMBDA f:
                          [b |-> [body.b EXCEPT !.stabs = linkFunction(@, f)], n |-> f])))))

\* the first loop of buildTree: structures and impls are declared by name
RECURSIVE declareNodes(_, _, _, _)
declareNodes(b0, nodes, structureNodes, implNodes) ==
    IF nodes = <<>>
    THEN [b |-> b0, structureNodes |-> structureNodes, implNodes |-> implNodes]
    ELSE Let(Head(nodes), LAMBDA n:
             CASE n.kind = "StructureDeclStatement" ->
                    declareNodes([b0 EXCEPT !.mod = RegisterStructure(@, declareStructure(n))],
                                 Tail(nodes), Append(structureNodes, n), implNodes)
               [] n.kind = "ImplDeclStatement" ->
                    Let(RegisterImpl(b0.mod, NewImpl(n.name)), LAMBDA r:
                    Let([b0 EXCEPT !.mod = r.m], LAMBDA b1:
                        declareNodes(IF r.dup
                                     THEN bError(b1, [kind |-> "DuplicateImplementation",
                                                      name |-> n.name.lexeme])
                                     ELSE b1,
                                     Tail(nodes), structureNodes, Append(implNodes, n))))
               [] OTHER -> declareNodes(b0, Tail(nodes), structureNodes, implNodes))

\* the field loop of a structure
RECURSIVE buildFields(_, _)
buildFields(fields, dict) ==
    IF fields = <<>> THEN [kind |-> "Values", list |-> dict]
    ELSE Then(callBuildType(Head(fields).type), LAMBDA t:
             buildFields(Tail(fields),
                         Append(dict, [name |-> Head(fields).name,
                                       owned |-> Head(fields).owned, type |-> t])))

\* the second loop of buildTree: the fields of the structures
RECURSIVE defineStructures(_, _)
defineStructures(b0, structureNodes) ==
    IF structureNodes = <<>> \/ b0.st # "ok" THEN b0
    ELSE Let(Head(structureNodes), LAMBDA sn:
             IF sn.name.lexeme \notin DOMAIN b0.mod.structures THEN BPanic(b0)
             ELSE Let(buildFields(sn.fields, b0.mod.structures[sn.name.lexeme].fields),
                      LAMBDA fs:
                      IF fs = Panicked THEN BPanic(b0)
                      ELSE defineStructures(
                               [b0 EXCEPT !.mod.structures[sn.name.lexeme].fields = fs.list],
                               Tail(structureNodes))))

\* the method loop of an impl
RECURSIVE buildMethods(_, _, _)
buildMethods(b0, name, fns) ==
    IF fns = <<>> \/ b0.st # "ok" THEN b0
    ELSE Let(buildFunc(b0, Head(fns)), LAMBDA builtFunc:
             IF builtFunc.b.st # "ok" THEN builtFunc.b
             ELSE Let(RegisterMethod(builtFunc.b.mod.impls[name], builtFunc.n), LAMBDA r:
                  Let([builtFunc.b EXCEPT !.mod.impls[name] = r.impl], LAMBDA b1:
                      buildMethods(IF r.ok THEN b1
                                   ELSE bError(b1, [kind |-> "SymbolError",
                                                    name |-> Head(fns).name.lexeme]),
                                   name, Tail(fns)))))

\* the third loop of buildTree: the methods of the impls
RECURSIVE defineImpls(_, _)
defineImpls(b0, implNodes) ==
    IF implNodes = <<>> \/ b0.st # "ok" THEN b0
    ELSE Let(Head(implNodes), LAMBDA in:
             IF in.name.lexeme \notin DOMAIN b0.mod.impls THEN BPanic(b0)
             ELSE defineImpls(buildMethods(b0, in.name.lexeme, in.functions),
                              Tail(implNodes)))

\* the last loop of buildTree: the functions
RECURSIVE buildFunctions(_, _)
buildFunctions(b0, nodes) ==
    IF nodes = <<>> \/ b0.st # "ok" THEN b0
    ELSE IF Head(nodes).kind = "FunctionDeclStatement"
    THEN Let(buildFunc(b0, Head(nodes)), LAMBDA f:
             IF f.b.st # "ok" THEN f.b
             ELSE buildFunctions([f.b EXCEPT !.mod = RegisterFunction(@, f.n)], Tail(nodes)))
    ELSE buildFunctions(b0, Tail(nodes))

buildTree(b0, nodes) ==
    Let(declareNodes(b0, nodes, <<>>, <<>>), LAMBDA d:
    Let(defineStructures(d.b, d.structureNodes), LAMBDA b1:
    Let(defineImpls(b1, d.implNodes), LAMBDA b2:
        buildFunctions(b2, nodes))))

\* the loop of build over the units
RECURSIVE buildTrees(_, _)
buildTrees(b0, trs) ==
    IF trs = <<>> \/ b0.st # "ok" THEN b0
    ELSE buildTrees(buildTree(b0, Head(trs)), Tail(trs))

\* build: the module with its symbol tables, the diagnostics, and how the
\* call ended
build(trs) ==
    Let(buildTrees(newBuilder(NewModule("main")), trs), LAMBDA b:
        [mod |-> b.mod, stabs |-> b.stabs, errors |-> b.errors, st |-> b.st])

----------------------------------------------------------------------------
(* Scope resolution.  The pass s carries the diagnostics, the cursor curr  *)
(* (a symbol table, 0 for nil), the symbol tables and whether a call       *)
(* panicked.                                                               *)

\* SymbolTable.Lookup: the name is registered in the table or in one of its
\* outer tables
RECURSIVE Lookup(_, _, _)
Lookup(stabs, id, name) ==
    IF id = 0 THEN FALSE
    ELSE IF name \in DOMAIN stabs[id].types THEN TRUE
    ELSE Lookup(stabs, stabs[id].outer, name)

NewUnresolvedSymbol(name) == [kind |-> "UnresolvedSymbol", name |-> name]

sError(s, err) == [s EXCEPT !.errors = Append(s.errors, err)]

sPanic(s) == [s EXCEPT !.st = "panic"]

sPush(s, stab) == [s EXCEPT !.curr = stab]

sPop(s) == IF s.curr # 0 THEN [s EXCEPT !.curr = s.stabs[s.curr].outer] ELSE s

\* a nil cursor is dereferenced by Lookup
resolveIden(s, i) ==
    IF s.curr = 0 THEN sPanic(s)
    ELSE IF Lookup(s.stabs, s.curr, i.name.lexeme) THEN s
    ELSE sError(s, NewUnresolvedSymbol(i.name.lexeme))

RECURSIVE resolveValue(_, _)
resolveValue(s, e) ==
    IF s.st # "ok" THEN s
    ELSE CASE e.kind \in {"Integer", "String", "Floating"} -> s
           [] e.kind = "Binary" -> resolveValue(resolveValue(s, e.lh), e.rh)
           [] e.kind = "Identifier" -> resolveIden(s, e)
           [] OTHER -> sPanic(s)

resolveAlloca(s, v) == IF v.val # Nil THEN resolveValue(s, v.val) ELSE s

resolveLocal(s, v) == IF v.val # Nil THEN resolveValue(s, v.val) ELSE s

resolveAssign(s, a) == s

resolveCall(s, c) == s

RECURSIVE resolveInstr(_, _), resolveInstrs(_, _), resolveElseIfs(_, _)

resolveBlock(s, b) ==
    IF s.st # "ok" THEN s ELSE sPop(resolveInstrs(sPush(s, b.stab), b.instr))

\* the loop over the instructions of a block or body
resolveInstrs(s, instrs) ==
    IF instrs = <<>> \/ s.st # "ok" THEN s
    ELSE resolveInstrs(resolveInstr(s, Head(instrs)), Tail(instrs))

\* the loop over the else-if branches: their bodies
resolveElseIfs(s, elifs) ==
    IF elifs = <<>> \/ s.st # "ok" THEN s
    ELSE resolveElseIfs(resolveBlock(s, Head(elifs).body), Tail(elifs))

resolveInstr(s, i) ==
    IF s.st # "ok" THEN s
    ELSE CASE i.kind = "Alloca" -> resolveAlloca(s, i)
           [] i.kind = "Local" -> resolveLocal(s, i)
           [] i.kind = "Return" -> IF i.val # Nil THEN resolveValue(s, i.val) ELSE s
           [] i.kind = "IfStatement" ->
                Let(resolveElseIfs(resolveBlock(resolveValue(s, i.cond), i.true), i.elseIf),
                    LAMBDA s1: IF i.else # Nil THEN resolveBlock(s1, i.else) ELSE s1)
           [] i.kind = "WhileLoop" ->
                Let(resolveValue(s, i.cond), LAMBDA s1:
                    resolveBlock(IF i.post # Nil THEN resolveValue(s1, i.cond) ELSE s1,
                                 i.body))
           [] i.kind = "Loop" -> resolveBlock(s, i.body)
           [] i.kind = "Block" -> resolveBlock(s, i.block)
           [] i.kind = "Call" -> resolveCall(s, i)
           [] i.kind = "Assign" -> resolveAssign(s, i)
           [] OTHER -> sPanic(s)

resolveFunc(s, f) ==
    IF s.st # "ok" THEN s ELSE sPop(resolveInstrs(sPush(s, f.stab), f.body.instr))

\* the loop over functions in the order fs
RECURSIVE resolveFuncs(_, _)
resolveFuncs(s, fs) ==
    IF fs = <<>> THEN s ELSE resolveFuncs(resolveFunc(s, Head(fs)), Tail(fs))

\* the enumerations of a set without repetition: the orders in which a range
\* over a map may visit its keys
Orders(S) ==
    {f \in [1..Cardinality(S) -> S] : \A x \in S : \E k \in 1..Cardinality(S) : f[k] = x}

\* the orders in which symResolve may visit the functions
FunctionOrders(m) ==
    {[k \in 1..Len(o) |-> m.functions[o[k]]] : o \in Orders(DOMAIN m.functions)}

\* the orders in which symResolve may visit the methods of the impls named
RECURSIVE MethodOrdersOf(_, _)
MethodOrdersOf(m, names) ==
    IF names = <<>> THEN {<<>>}
    ELSE {[k \in 1..Len(o) |-> m.impls[Head(names)].methods[o[k]]] \o rest :
              o \in Orders(DOMAIN m.impls[Head(names)].methods),
              rest \in MethodOrdersOf(m, Tail(names))}

MethodOrders(m) == UNION {MethodOrdersOf(m, o) : o \in Orders(DOMAIN m.impls)}

\* symResolve, visiting the methods in the order ms and the functions in the
\* order fs
symResolve(m, stabs, ms, fs) ==
    Let(resolveFuncs([errors |-> <<>>, curr |-> 0, stabs |-> stabs, st |-> "ok"], ms \o fs),
        LAMBDA s: [errors |-> s.errors, st |-> s.st, curr |-> s.curr])

----------------------------------------------------------------------------
(* Type declaration.  The pass d carries the module, the diagnostics, the  *)
(* cursor curr, the symbol tables and whether a call panicked.  A visit    *)
(* yields [d |-> the pass after it, n |-> the instruction or block as the  *)
(* pass left it].                                                          *)

dError(d, err) == [d EXCEPT !.errors = Append(d.errors, err)]

dPanic(d) == [d EXCEPT !.st = "panic"]

dPush(d, stab) == [d EXCEPT !.curr = stab]

\* a nil cursor is dereferenced by d.curr.Outer
dPop(d) == IF d.curr = 0 THEN dPanic(d) ELSE [d EXCEPT !.curr = d.stabs[d.curr].outer]

\* a nil cursor is dereferenced by RegisterType
regType(d, name, t) ==
    IF d.curr = 0 THEN dPanic(d)
    ELSE [d EXCEPT !.stabs[d.curr].types = Put(@, name, t)]

\* visitLocal without the binding of a Reference to the structure of its name
visitLocalUnbound(d, l) ==
    IF l.type = Nil
    THEN [d |-> dError(d, [kind |-> "UnimplementedError", msg |-> "type inference"]), n |-> l]
    ELSE [d |-> regType(d, l.name.lexeme, l.type), n |-> l]

visitLocal(d, l) ==
    IF l.type = Nil
    THEN [d |-> dError(d, [kind |-> "UnimplementedError", msg |-> "type inference"]), n |-> l]
    ELSE Let(IF l.type.kind = "Reference" /\ l.type.name \in DOMAIN d.mod.structures
             THEN [l EXCEPT !.type = d.mod.structures[l.type.name]]
             ELSE l, LAMBDA l1:
             [d |-> regType(d, l1.name.lexeme, l1.type), n |-> l1])

visitAlloca(d, a) ==
    IF a.type = Nil
    THEN [d |-> dError(d, [kind |-> "UnimplementedError", msg |-> "type inference"]), n |-> a]
    ELSE [d |-> regType(d, a.name.lexeme, a.type), n |-> a]

RECURSIVE visitInstr(_, _), visitInstrs(_, _, _)

visitBlock(d, b) ==
    Let(visitInstrs(dPush(d, b.stab), b.instr, <<>>), LAMBDA r:
        [d |-> IF r.d.st = "ok" THEN dPop(r.d) ELSE r.d, n |-> [b EXCEPT !.instr = r.n]])

\* the loop over the instructions of a block or body, with those visited
visitInstrs(d, instrs, done) ==
    IF instrs = <<>> \/ d.st # "ok" THEN [d |-> d, n |-> done \o instrs]
    ELSE Let(visitInstr(d, Head(instrs)), LAMBDA r:
             visitInstrs(r.d, Tail(instrs), Append(done, r.n)))

visitInstr(d, i) ==
    CASE i.kind = "Block" ->
            Let(visitBlock(d, i.block), LAMBDA r: [d |-> r.d, n |-> [i EXCEPT !.block = r.n]])
      [] i.kind = "Local" -> visitLocal(d, i)
      [] i.kind = "Alloca" -> visitAlloca(d, i)
      [] i.kind \in {"Path", "Return"} -> [d |-> d, n |-> i]
      [] OTHER ->
            [d |-> dError(d, [kind |-> "UnimplementedError", msg |-> "visitInstr"]), n |-> i]

\* the loop of declType over FunctionOrder
RECURSIVE declFunctions(_, _)
declFunctions(d, names) ==
    IF names = <<>> \/ d.st # "ok" THEN d
    ELSE Let(d.mod.functions[Head(names).lexeme], LAMBDA f:
         Let(visitInstrs(dPush(d, f.stab), f.body.instr, <<>>), LAMBDA r:
         Let([r.d EXCEPT !.mod.functions[Head(names).lexeme].body.instr = r.n], LAMBDA d1:
             declFunctions(IF d1.st = "ok" THEN dPop(d1) ELSE d1, Tail(names)))))

declType(m, stabs) ==
    Let(declFunctions(dPush([mod |-> m, errors |-> <<>>, curr |-> 0, stabs |-> stabs,
                             st |-> "ok"], m.root), m.functionOrder), LAMBDA d:
        [mod |-> d.mod, stabs |-> d.stabs, errors |-> d.errors, st |-> d.st])

----------------------------------------------------------------------------
(* The stages after the parser: build, then symResolve and declType on the *)
(* module, each a request of its own.                                      *)

MaxStmts == 2

\* mut x = 1;
StmtMut ==
    <<" ", "m", "u", "t", " ", "x", " ", "=", " ", "1", ";">>

\* let x int = 1;
StmtLet ==
    <<" ", "l", "e", "t", " ", "x", " ", "i", "n", "t", " ", "=", " ", "1", ";">>

\* return x + y;
StmtReturn ==
    <<" ", "r", "e", "t", "u", "r", "n", " ", "x", " ", "+", " ", "y", ";">>

\* g(y);
StmtCall ==
    <<" ", "g", "(", "y", ")", ";">>

\* x = y;
StmtAssign ==
    <<" ", "x", " ", "=", " ", "y", ";">>

\* a.b + c;
StmtPath ==
    <<" ", "a", ".", "b", " ", "+", " ", "c", ";">>

Stmts == {StmtMut, StmtLet, StmtReturn, StmtCall, StmtAssign, StmtPath}

\* mut x;
StmtMutBare ==
    <<" ", "m", "u", "t", " ", "x", ";">>

\* if a { let x int = 1; }
StmtIf ==
    <<" ", "i", "f", " ", "a", " ", "{", " ", "l", "e", "t", " ", "x", " ", "i", "n", "t",
      " ", "=", " ", "1", ";", " ", "}">>

\* if a { } else if b { } else { let x int = z; }
StmtElseIf ==
    <<" ", "i", "f", " ", "a", " ", "{", " ", "}", " ", "e", "l", "s", "e", " ", "i", "f",
      " ", "b", " ", "{", " ", "}", " ", "e", "l", "s", "e", " ", "{", " ", "l", "e", "t",
      " ", "x", " ", "i", "n", "t", " ", "=", " ", "z", ";", " ", "}">>

\* while a { break; }
StmtWhile ==
    <<" ", "w", "h", "i", "l", "e", " ", "a", " ", "{", " ", "b", "r", "e", "a", "k", ";",
      " ", "}">>

\* loop { next; }
StmtLoop ==
    <<" ", "l", "o", "o", "p", " ", "{", " ", "n", "e", "x", "t", ";", " ", "}">>

\* defer x;
StmtDefer ==
    <<" ", "d", "e", "f", "e", "r", " ", "x", ";">>

\* { let x int = y; }
StmtBlock ==
    <<" ", "{", " ", "l", "e", "t", " ", "x", " ", "i", "n", "t", " ", "=", " ", "y", ";",
      " ", "}">>

\* let a A;
StmtLetRef ==
    <<" ", "l", "e", "t", " ", "a", " ", "A", ";">>

\* let x int = -1;
StmtUnary ==
    <<" ", "l", "e", "t", " ", "x", " ", "i", "n", "t", " ", "=", " ", "-", "1", ";">>

\* let x int = (1);
StmtGrouping ==
    <<" ", "l", "e", "t", " ", "x", " ", "i", "n", "t", " ", "=", " ", "(", "1", ")", ";">>

\* let x int = a[1];
StmtIndex ==
    <<" ", "l", "e", "t", " ", "x", " ", "i", "n", "t", " ", "=", " ", "a", "[", "1", "]",
      ";">>

\* let x int = 1; let z int = x;
StmtUse ==
    <<" ", "l", "e", "t", " ", "x", " ", "i", "n", "t", " ", "=", " ", "1", ";", " ", "l",
      "e", "t", " ", "z", " ", "i", "n", "t", " ", "=", " ", "x", ";">>

\* a.b.c + d;
StmtPath3Sum ==
    <<" ", "a", ".", "b", ".", "c", " ", "+", " ", "d", ";">>

\* a.b * c + d;
StmtPathProductSum ==
    <<" ", "a", ".", "b", " ", "*", " ", "c", " ", "+", " ", "d", ";">>

\* a.b = c;
StmtPathAssign ==
    <<" ", "a", ".", "b", " ", "=", " ", "c", ";">>

OtherStmts ==
    {StmtPathAssign, StmtMutBare, StmtIf, StmtElseIf, StmtWhile,
     StmtLoop, StmtDefer, StmtBlock, StmtLetRef,
     StmtUnary, StmtGrouping, StmtIndex, StmtUse,
     StmtPath3Sum, StmtPathProductSum}

\* fn f() {
FnHead ==
    <<"f", "n", " ", "f", "(", ")", " ", "{">>

\* }
FnTail ==
    <<" ", "}">>

FnF(body) == FnHead \o body \o FnTail

RECURSIVE Concat(_)
Concat(ss) == IF ss = <<>> THEN <<>> ELSE Head(ss) \o Concat(Tail(ss))

SrcUnresolved == FnF(StmtMut \o StmtReturn)

\* impl A { fn m() {} } impl A { fn n() {} }
SrcImplTwice ==
    <<"i", "m", "p", "l", " ", "A", " ", "{", " ", "f", "n", " ", "m", "(", ")", " ", "{",
      "}", " ", "}", " ", "i", "m", "p", "l", " ", "A", " ", "{", " ", "f", "n", " ", "n",
      "(", ")", " ", "{", "}", " ", "}">>

\* impl A { fn m() {} } impl A { fn m() {} }
SrcImplSame ==
    <<"i", "m", "p", "l", " ", "A", " ", "{", " ", "f", "n", " ", "m", "(", ")", " ", "{",
      "}", " ", "}", " ", "i", "m", "p", "l", " ", "A", " ", "{", " ", "f", "n", " ", "m",
      "(", ")", " ", "{", "}", " ", "}">>

\* fn f() { let x int = y; } fn g() { let z int = w; }
SrcTwoFns ==
    <<"f", "n", " ", "f", "(", ")", " ", "{", " ", "l", "e", "t", " ", "x", " ", "i", "n",
      "t", " ", "=", " ", "y", ";", " ", "}", " ", "f", "n", " ", "g", "(", ")", " ", "{",
      " ", "l", "e", "t", " ", "z", " ", "i", "n", "t", " ", "=", " ", "w", ";", " ", "}">>

\* impl A { fn m() { let x int = y; } } fn f() { let z int = w; }
SrcImplFn ==
    <<"i", "m", "p", "l", " ", "A", " ", "{", " ", "f", "n", " ", "m", "(", ")", " ", "{",
      " ", "l", "e", "t", " ", "x", " ", "i", "n", "t", " ", "=", " ", "y", ";", " ", "}",
      " ", "}", " ", "f", "n", " ", "f", "(", ")", " ", "{", " ", "l", "e", "t", " ", "z",
      " ", "i", "n", "t", " ", "=", " ", "w", ";", " ", "}">>

\* fn f() { let x int = 1; { } let z int = 1; }
SrcBlockBetween ==
    <<"f", "n", " ", "f", "(", ")", " ", "{", " ", "l", "e", "t", " ", "x", " ", "i", "n",
      "t", " ", "=", " ", "1", ";", " ", "{", " ", "}", " ", "l", "e", "t", " ", "z", " ",
      "i", "n", "t", " ", "=", " ", "1", ";", " ", "}">>

Programs == {SrcImplTwice, SrcImplSame, SrcTwoFns, SrcImplFn, SrcBlockBetween}

MidSources ==
    {FnF(Concat(ss)) : ss \in SeqsUpTo(Stmts, MaxStmts)}
        \cup {FnF(s) : s \in OtherStmts} \cup Programs

\* the declarations ParseTokenStream returns for a source
ParseUnit(source) == ParseTokenStream(tokenizeInput(source).l.stream).nodes

Iden(name) == NewToken(name, "Identifier", 0, 0)

\* structure declarations, which parseNode does not produce
StructureDecl(name, fields) ==
    [kind |-> "StructureDeclStatement", name |-> Iden(name), fields |-> fields]

Field(name, typeName) ==
    [name |-> Iden(name), owned |-> FALSE,
     type |-> [kind |-> "UnresolvedType", name |-> typeName]]

StructA == StructureDecl(<<"A">>, <<Field(<<"b">>, <<"B">>)>>)

StructB == StructureDecl(<<"B">>, <<Field(<<"n">>, <<"i", "n", "t">>)>>)

\* a unit of a request: declarations given as AST, then those of a source
FromSource(source) == [decls |-> <<>>, source |-> source]

Given(decls) == [decls |-> decls, source |-> <<>>]

Unit(u) == u.decls \o ParseUnit(u.source)

\* one unit: A { b B }, then B { n int }, then fn f() { let a A; }
UnitForward == [decls |-> <<StructA, StructB>>, source |-> FnF(StmtLetRef)]

\* requests of several units
Requests2 ==
    {<<FromSource(FnF(StmtLetRef)), Given(<<StructA, StructB>>)>>,
     <<Given(<<StructA>>), Given(<<StructB>>)>>,
     <<FromSource(SrcImplTwice), FromSource(SrcTwoFns)>>,
     <<FromSource(SrcTwoFns), FromSource(SrcTwoFns)>>,
     <<FromSource(SrcImplSame), FromSource(SrcImplSame)>>}

Requests == {<<FromSource(s)>> : s \in MidSources} \cup {<<UnitForward>>} \cup Requests2

\* modules given to the passes directly, with instructions build does not
\* produce: one function f whose body holds instrs
IntType == [kind |-> "Primitive", name |-> <<"i", "n", "t">>]

IrIden(name) == [kind |-> "Identifier", name |-> Iden(name)]

IrLocal == [kind |-> "Local", name |-> Iden(<<"x">>), type |-> IntType, owned |-> FALSE,
            val |-> [kind |-> "Integer", value |-> 1], mutable |-> TRUE]

IrReturn ==
    [kind |-> "Return",
     val |-> [kind |-> "Binary", lh |-> IrIden(<<"x">>), op |-> <<"+">>, rh |-> IrIden(<<"y">>)]]

IrCall == [kind |-> "Call", left |-> IrIden(<<"g">>), params |-> <<IrIden(<<"y">>)>>]

IrAssign == [kind |-> "Assign", lh |-> IrIden(<<"x">>), op |-> <<"=">>, rh |-> IrIden(<<"y">>)]

IrAlloca == [kind |-> "Alloca", name |-> Iden(<<"z">>), type |-> IntType, owned |-> FALSE,
             val |-> IrIden(<<"x">>)]

IrPath == [kind |-> "Path", values |-> <<IrIden(<<"a">>), IrIden(<<"b">>)>>]

IrBreak == [kind |-> "Break"]

IrBlock ==
    [kind |-> "Block",
     block |-> [instr |-> <<[IrAlloca EXCEPT !.name = Iden(<<"w">>)]>>, defers |-> <<>>,
                ret |-> Nil, stab |-> 4]]

IrEmptyBlock(stab) == [instr |-> <<>>, defers |-> <<>>, ret |-> Nil, stab |-> stab]

\* if 1 { } else if p { }
IrIfElseIf ==
    [kind |-> "IfStatement", cond |-> [kind |-> "Integer", value |-> 1],
     true |-> IrEmptyBlock(5),
     elseIf |-> <<[cond |-> IrIden(<<"p">>), body |-> IrEmptyBlock(6)]>>, else |-> Nil]

\* while 1; q { }
IrWhilePost ==
    [kind |-> "WhileLoop", cond |-> [kind |-> "Integer", value |-> 1],
     post |-> IrIden(<<"q">>), body |-> IrEmptyBlock(7)]

\* if p { }  and  while q { }
IrIf == [IrIfElseIf EXCEPT !.cond = IrIden(<<"p">>), !.elseIf = <<>>]

IrWhile == [IrWhilePost EXCEPT !.cond = IrIden(<<"q">>), !.post = Nil]

IrInstrs ==
    {IrLocal, IrReturn, IrCall, IrAssign, IrAlloca, IrPath, IrBreak, IrBlock,
     IrIfElseIf, IrWhilePost, IrIf, IrWhile}

IrFunction(instrs) ==
    [name |-> Iden(<<"f">>), mutability |-> <<>>, params |-> <<>>, ret |-> Void,
     body |-> [instr |-> instrs, defers |-> <<>>, ret |-> Nil, stab |-> 3], stab |-> 2]

IrModule(instrs) == RegisterFunction(NewModule("main"), IrFunction(instrs))

IrTables ==
    [k \in 1..7 |-> [types |-> <<>>, outer |-> IF k <= 4 THEN k - 1 ELSE 3]]

IrModules == {IrModule(instrs) : instrs \in SeqsUpTo(IrInstrs, MaxStmts)}

MidInit ==
    /\ LexIdle
    /\ ParseIdle
    /\ \/ /\ units \in Requests
          /\ trees = [k \in 1..Len(units) |-> Unit(units[k])]
          /\ module = Nil
          /\ tables = <<>>
          /\ buildState = "ready"
       \/ /\ units = <<>>
          /\ trees = <<>>
          /\ module \in IrModules
          /\ tables = IrTables
          /\ buildState = "given"
    /\ berrors = <<>>
    /\ again = Nil
    /\ serrors = <<>>
    /\ symState = "idle"
    /\ derrors = <<>>
    /\ declState = "idle"

\* build on the forests
Build ==
    /\ buildState = "ready"
    /\ Let(build(trees), LAMBDA r:
           /\ module' = r.mod
           /\ tables' = r.stabs
           /\ berrors' = r.errors
           /\ buildState' = IF r.st = "ok" THEN "built" ELSE "panic")
    /\ UNCHANGED <<lexVars, parseVars, units, trees, again, serrors, symState, derrors, declState>>

\* build once more on the same forests, before a pass has run on the module.
\* BuildAgainInto is a second build without NewModule: it goes on in the
\* module and the symbol tables of the first.
BuildAgainInto ==
    /\ buildState = "built" /\ symState = "idle" /\ declState = "idle"
    /\ again' = Let(buildTrees([newBuilder(module) EXCEPT !.stabs = tables], trees),
                    LAMBDA b: [mod |-> b.mod, stabs |-> b.stabs, errors |-> b.errors,
                               st |-> b.st])
    /\ buildState' = "twice"
    /\ UNCHANGED <<lexVars, parseVars, units, trees, module, tables, berrors, serrors, symState,
                   derrors, declState>>

BuildAgain ==
    /\ buildState = "built" /\ symState = "idle" /\ declState = "idle"
    /\ again' = build(trees)
    /\ buildState' = "twice"
    /\ UNCHANGED <<lexVars, parseVars, units, trees, module, tables, berrors, serrors, symState,
                   derrors, declState>>

\* symResolve on the module; the ranges over its maps visit in some order
SymResolve ==
    /\ buildState \in {"built", "twice", "given"}
    /\ symState = "idle"
    /\ \E ms \in MethodOrders(module), fs \in FunctionOrders(module) :
           Let(symResolve(module, tables, ms, fs), LAMBDA r:
               /\ serrors' = r.errors
               /\ symState' = IF r.st = "ok" THEN "done" ELSE "panic")
    /\ UNCHANGED <<lexVars, parseVars, units, trees, module, tables, berrors, buildState, again,
                   derrors, declState>>

\* declType on the module
DeclType ==
    /\ buildState \in {"built", "twice", "given"}
    /\ declState = "idle"
    /\ Let(declType(module, tables), LAMBDA r:
           /\ module' = r.mod
           /\ tables' = r.stabs
           /\ derrors' = r.errors
           /\ declState' = IF r.st = "ok" THEN "done" ELSE "panic")
    /\ UNCHANGED <<lexVars, parseVars, units, trees, berrors, buildState, again, serrors, symState>>

MidNext == Build \/ BuildAgain \/ SymResolve \/ DeclType

SpecMid == MidInit /\ [][MidNext]_vars

----------------------------------------------------------------------------
(* Properties of the stages after the parser, checked under SpecMid *)

FnName == <<"f">>

Unresolved(errs) == {k \in DOMAIN errs : errs[k].kind = "UnresolvedSymbol"}

\* C5: for the function fn f() { mut x = 1; return x + y; }, symResolve
\* returns exactly one unresolved-symbol diagnostic, which names y, and no
\* diagnostic that names x.
C5_OneUnresolvedY ==
    (units = <<FromSource(SrcUnresolved)>> /\ symState # "idle") =>
        /\ symState = "done"
        /\ Cardinality(Unresolved(serrors)) = 1
        /\ \A k \in DOMAIN serrors : serrors[k].name = <<"y">>

Duplicates(errs) ==
    {k \in DOMAIN errs : errs[k].kind \in {"DuplicateImplementation", "SymbolError"}}

\* C6: when impl A { ... } is declared twice in the input of build, with
\* different or with the same method names, the diagnostics hold exactly one
\* duplicate-declaration error and the methods of A are those of the first
\* declaration.
C6_DuplicateImplOnce ==
    (/\ units \in {<<FromSource(SrcImplTwice)>>, <<FromSource(SrcImplSame)>>}
     /\ buildState \in {"built", "twice"}) =>
        /\ Cardinality(Duplicates(berrors)) = 1
        /\ DOMAIN module.impls[<<"A">>].methods = {<<"m">>}

\* C7: after declType on the module built from one unit in which structure A
\* has a field of type B and B is declared later, the type of that field is
\* the structure B.
C7_ForwardFieldBound ==
    (units = <<UnitForward>> /\ declState = "done") =>
        module.structures[<<"A">>].fields[1].type = module.structures[<<"B">>]

\* C8: symResolve resolves the sub-expressions of a call and of an
\* assignment: an undeclared identifier in them gives an unresolved-symbol
\* diagnostic.
C8_CallAssignResolved ==
    (/\ symState # "idle"
     /\ \/ /\ buildState = "given"
           /\ module.functions[FnName].body.instr \in {<<IrCall>>, <<IrAssign>>}
        \/ units \in {<<FromSource(FnF(StmtCall))>>, <<FromSource(FnF(StmtAssign))>>}) =>
        /\ symState = "done"
        /\ Unresolved(serrors) # {}

\* C9: no unhandled case aborts a stage: build and symResolve return
\* normally, with their diagnostics, on every input.
C9_NoStagePanics == buildState # "panic" /\ symState # "panic"

LastOfName(instrs, k) ==
    \A j \in DOMAIN instrs :
        (j > k /\ instrs[j].kind \in {"Local", "Alloca"}) =>
            instrs[j].name.lexeme # instrs[k].name.lexeme

\* the Local l with a Reference type became l2, and types is its scope after
\* the pass
ReferenceBound(structs, l, l2, types) ==
    (l.type.kind = "Reference") =>
        /\ l2.type = IF l.type.name \in DOMAIN structs THEN structs[l.type.name] ELSE l.type
        /\ l.name.lexeme \in DOMAIN types
        /\ types[l.name.lexeme] = l2.type

OnlyTypedLocals(m) ==
    \A name \in DOMAIN m.functions : \A k \in DOMAIN m.functions[name].body.instr :
        /\ m.functions[name].body.instr[k].kind = "Local"
        /\ m.functions[name].body.instr[k].type # Nil

\* C11: declType replaces the type of a Local declared with a Reference N by
\* the Structure N when the module has one and registers the name with it in
\* the current scope; without such a Structure the type stays the Reference,
\* the name is registered with it, and no diagnostic is added.
C11_ReferenceLocalBound ==
    [][(declState = "idle" /\ declState' = "done") =>
         /\ \A name \in DOMAIN module.functions :
              \A k \in DOMAIN module.functions[name].body.instr :
                  (/\ module.functions[name].body.instr[k].kind = "Local"
                   /\ LastOfName(module.functions[name].body.instr, k)) =>
                      ReferenceBound(module.structures,
                                     module.functions[name].body.instr[k],
                                     module'.functions[name].body.instr[k],
                                     tables'[module.functions[name].stab].types)
         /\ OnlyTypedLocals(module) => derrors' = <<>>]_vars

\* declType has bound the Local a of fn f() { let a A; } to the structure A
\* and registered it in the scope of f
C11_Witness ==
    /\ declState = "done"
    /\ units = <<UnitForward>>
    /\ module.functions[FnName].body.instr[1].type.kind = "Structure"
    /\ tables[module.functions[FnName].stab].types[<<"a">>] = module.structures[<<"A">>]

\* the names of the unresolved-symbol diagnostics of symResolve
UnresolvedNames == {serrors[k].name : k \in Unresolved(serrors)}

\* C16: symResolve resolves every condition expression of a control-flow
\* instruction: an undeclared identifier in the condition of an else-if branch
\* of an If (if 1 { } else if p { }), or in the post-expression of a While
\* (while 1; q { }), gives an unresolved-symbol diagnostic that names it, as
\* one in the If condition or the While condition does.
C16_ConditionsResolved ==
    (buildState = "given" /\ symState # "idle") =>
        /\ module.functions[FnName].body.instr \in {<<IrIf>>, <<IrIfElseIf>>} =>
               symState = "done" /\ <<"p">> \in UnresolvedNames
        /\ module.functions[FnName].body.instr \in {<<IrWhile>>, <<IrWhilePost>>} =>
               symState = "done" /\ <<"q">> \in UnresolvedNames

\* C17: when build is given several units, sweep 1 (registering every
\* structure and impl name) has completed for all units before sweep 2
\* (filling structure fields and impl methods) begins for any unit: in the
\* diagnostics of build, every duplicate-implementation error, which sweep 1
\* records, comes before every symbol error, which sweep 2 records.
C17_SweepOneBeforeSweepTwo ==
    (Len(units) >= 2 /\ buildState \in {"built", "twice"}) =>
        \A i, j \in DOMAIN berrors :
            (/\ berrors[i].kind = "DuplicateImplementation"
             /\ berrors[j].kind = "SymbolError") => i < j

\* the leftmost operand of a value: of a Binary, that of its left hand
RECURSIVE LeftmostOperand(_)
LeftmostOperand(v) == IF v.kind = "Binary" THEN LeftmostOperand(v.lh) ELSE v

\* no Path of the value holds a Path, or a Binary as its last element
RECURSIVE FlatPaths(_)
FlatPaths(v) ==
    CASE v.kind = "Path" ->
            \A k \in DOMAIN v.values :
                /\ v.values[k].kind # "Path"
                /\ k = Len(v.values) => v.values[k].kind # "Binary"
                /\ FlatPaths(v.values[k])
      [] v.kind = "Binary" -> FlatPaths(v.lh) /\ FlatPaths(v.rh)
      [] OTHER -> TRUE

\* the value is the Path of the identifiers named
IsPathOf(v, names) ==
    /\ v.kind = "Path"
    /\ Len(v.values) = Len(names)
    /\ \A k \in DOMAIN names :
          v.values[k].kind = "Identifier" /\ v.values[k].name.lexeme = names[k]

\* the dot-path that starts each of the statements a.b + c, a.b.c + d, a.b * c + d
PathOfStmt(stmt) ==
    IF stmt = StmtPath3Sum THEN << <<"a">>, <<"b">>, <<"c">> >> ELSE << <<"a">>, <<"b">> >>

\* C18: when a dot-path of n >= 2 elements is followed by binary operators
\* (a.b + c, a.b.c + d, a.b * c + d), build yields a Binary expression whose
\* leftmost operand is the Path of the n elements, and in the result no Path
\* holds a Binary expression as its last element and no Path holds a Path.
C18_PathIsLeftOperand ==
    \A stmt \in {StmtPath, StmtPath3Sum, StmtPathProductSum} :
        (units = <<FromSource(FnF(stmt))>> /\ buildState \in {"built", "twice"}) =>
            /\ Len(module.functions[FnName].body.instr) = 1
            /\ module.functions[FnName].body.instr[1].val.kind = "Binary"
            /\ IsPathOf(LeftmostOperand(module.functions[FnName].body.instr[1].val),
                        PathOfStmt(stmt))
            /\ FlatPaths(module.functions[FnName].body.instr[1].val)

\* C21: a let statement declares a constant: build lowers let x int = 1; to a
\* Local whose mutable flag is false, and mut x = 1; to a Local whose mutable
\* flag is true.
C21_LetIsConstant ==
    (buildState \in {"built", "twice"} /\ Len(units) = 1) =>
        /\ units[1] = FromSource(FnF(StmtLet)) =>
               /\ Len(module.functions[FnName].body.instr) = 1
               /\ module.functions[FnName].body.instr[1].kind = "Local"
               /\ module.functions[FnName].body.instr[1].mutable = FALSE
        /\ units[1] = FromSource(FnF(StmtMut)) =>
               /\ Len(module.functions[FnName].body.instr) = 1
               /\ module.functions[FnName].body.instr[1].kind = "Local"
               /\ module.functions[FnName].body.instr[1].mutable = TRUE

\* the Local has an explicit type
TypedLocal(i) == i.kind = "Local" /\ i.type # Nil

\* C23: in the semantic passes the scope cursor follows block nesting: after
\* visitBlock returns, the cursor is again the scope that was current before
\* the block was entered, so a Local that follows a nested block is
\* registered in the enclosing scope, the one the Locals before the block
\* were registered in, and never against an absent scope.
C23_CursorFollowsNesting ==
    [][(declState = "idle" /\ declState' # "idle") =>
          \A name \in DOMAIN module.functions :
              \A i, k, j \in DOMAIN module.functions[name].body.instr :
                  (/\ i < k /\ k < j
                   /\ TypedLocal(module.functions[name].body.instr[i])
                   /\ module.functions[name].body.instr[k].kind = "Block"
                   /\ TypedLocal(module.functions[name].body.instr[j])) =>
                      /\ declState' = "done"
                      /\ \E t \in DOMAIN tables' :
                            {module.functions[name].body.instr[i].name.lexeme,
                             module.functions[name].body.instr[j].name.lexeme}
                                \subseteq DOMAIN tables'[t].types]_vars

\* every Local with an explicit type among the instructions of the block is
\* registered under its name in the scope of the block
RegisteredIn(blk, tabs) ==
    \A k \in DOMAIN blk.instr :
        TypedLocal(blk.instr[k]) =>
            blk.instr[k].name.lexeme \in DOMAIN tabs[blk.stab].types

\* the blocks an instruction holds, as InstrBlocks lists them
LocalsOfBlocksRegistered(i, tabs) ==
    \A b \in DOMAIN InstrBlocks(i) : RegisteredIn(InstrBlocks(i)[b], tabs)

\* C24: after declType, every Local with an explicit type in a function
\* body, also inside the blocks of if / else-if / else, while and loop
\* instructions, is registered under its name in the scope of the block that
\* directly contains it.
C24_NestedLocalsRegistered ==
    [][(declState = "idle" /\ declState' = "done" /\ buildState \in {"built", "twice"}) =>
          \A name \in DOMAIN module.functions :
              \A k \in DOMAIN module.functions[name].body.instr :
                  LocalsOfBlocksRegistered(module.functions[name].body.instr[k], tables')]_vars

\* the value of an instruction lowered from an expression statement
ValueOf(i) == IF i.kind = "ExpressionStatement" THEN i.val ELSE i

\* C25: lexing, parsing and lowering a.b = c yields an Assign whose left-hand
\* side is the Path [a, b] and whose right-hand side is c; the assignment is
\* not the last element of the Path.
C25_PathAssign ==
    (units = <<FromSource(FnF(StmtPathAssign))>> /\ buildState \in {"built", "twice"}) =>
        /\ Len(module.functions[FnName].body.instr) = 1
        /\ ValueOf(module.functions[FnName].body.instr[1]).kind = "Assign"
        /\ IsPathOf(ValueOf(module.functions[FnName].body.instr[1]).lh, << <<"a">>, <<"b">> >>)
        /\ ValueOf(module.functions[FnName].body.instr[1]).rh.kind = "Identifier"
        /\ ValueOf(module.functions[FnName].body.instr[1]).rh.name.lexeme = <<"c">>

\* C26: symResolve is deterministic: it visits the top-level functions in
\* their declaration order, so every run on the module of
\* fn f() { let x int = y; } fn g() { let z int = w; } returns the
\* diagnostics in the one order y, w.
C26_SymResolveDeterministic ==
    (units = <<FromSource(SrcTwoFns)>> /\ symState # "idle") =>
        /\ symState = "done"
        /\ [k \in DOMAIN serrors |-> serrors[k].name] = << <<"y">>, <<"w">> >>

====
